---- MODULE Spec2Model ----
(***************************************************************************)
(* PLM plugin lifecycle manager (src/src/core.rs) with the adapters of     *)
(* src/tests/integration_test.rs (MockPlugin) behind Arc<dyn Plugin>.      *)
(*                                                                         *)
(* The registry is a HashMap<String, Arc<dyn Plugin>>.  An Arc is modelled *)
(* by the identity of the adapter it points to; its strong count is the    *)
(* number of registry entries pointing to the adapter plus the number of   *)
(* clones held outside the manager.  The bulk operations initialize() and  *)
(* shutdown() are async and suspend at every adapter hook, so each is a    *)
(* sequence of steps; callers that hold handles run between those steps.   *)
(* No other manager operation can overlap a bulk operation (which borrows *)
(* the manager mutably), and the manager's owner takes the result of one   *)
(* call before it makes the next: hence the guard Callable.                *)
(*                                                                         *)
(* Spec is the registry and its adapters under the manager's operations    *)
(* and the operations callers run through their handles.  ManagerSpec adds *)
(* the held ProjectConfig (src/src/config.rs) with its accessors, Drop and *)
(* the constructors, and leaves the operations through handles out.        *)
(***************************************************************************)
EXTENDS Integers, Sequences, FiniteSets, TLC

\* ---------------------------------------------------------------- bounds
MaxNames == 2     \* distinct registry keys in use
MaxLive == 2      \* adapters alive (referenced by some Arc) at once
MaxHeld == 1      \* handles to one adapter held outside the manager at once

\* Arguments the per-name operations are called with.
VersionArgs == {<<>>, <<"1.0.0">>}
Versions == {"1.0.0"}
OptionArgs == {"default", "force"}

Names == 1..MaxNames          \* registry keys (distinct strings)
NoName == 0

\* Adapter instances, one of each kind of metadata an adapter can report: a
\* MockPlugin::new(name) (name and version "1.0.0"), one reporting
\* PluginMetadata::default() (empty name, version "0.1.0"), and one whose
\* version is empty.
Adapters == {"mock", "unnamed", "unversioned"}
NoAdapter == "none"

VARIABLES
    plugins,    \* PluginManager.plugins: name -> adapter (partial function)
    config,     \* PluginManager.config: the ProjectConfig the manager holds
    status,     \* MockPlugin.status of every adapter
    held,       \* Arc clones of each adapter held outside the manager
    using,      \* adapter a handle holder is running a &self operation on
    pc,         \* manager operation in progress: "idle", "initialize", "shutdown";
                \* "dropped" once the manager has been discarded
    iter,       \* names the running for-loop has not visited yet
    running,    \* adapter whose initialize()/shutdown() hook is executing
    cur,        \* registry key of the adapter whose hook is executing
    visits,     \* what the current/last bulk pass did to each visited entry
    pre,        \* registry when the current/last manager operation started
    calls,      \* adapter operations invoked by the last dispatching operation
    result,     \* what the manager operation that just returned gave its caller
    afterInit,  \* the operation before that was an initialize() that returned Ok
    since       \* <<>>, or <<m>> once a shutdown() has returned Ok: m is what the
                \* caller has registered since the last one that did

vars == <<plugins, config, status, held, using, pc, iter, running, cur, visits,
          pre, calls, result, afterInit, since>>

\* --------------------------------------------------------------- helpers
EmptyMap == [n \in {} |-> NoAdapter]

\* All orders in which a HashMap with key set S may be iterated.
Orders(S) ==
    {s \in [1..Cardinality(S) -> S] : \A i, j \in DOMAIN s : i # j => s[i] # s[j]}

\* Arc::strong_count: registry entries plus outside clones.
StrongCount(a) == Cardinality({n \in DOMAIN plugins : plugins[n] = a}) + held[a]

\* Arc::get_mut with every reference shared (mutant: the exclusivity test is lost).
ArcGetMutUnchecked(a) == TRUE

\* Arc::get_mut(plugin).is_some(): the Arc is the only reference to the adapter.
ArcGetMut(a) == StrongCount(a) = 1

\* PluginMetadata returned by adapter a (a fresh copy of the same value on
\* every call).
Metadata(a) ==
    CASE a = "mock"    -> [name |-> "test-go", version |-> "1.0.0"]
      [] a = "unnamed" -> [name |-> "", version |-> "0.1.0"]
      [] OTHER         -> [name |-> "tool", version |-> ""]

Ok(op, n) == [op |-> op, name |-> n, kind |-> "Ok", cause |-> "", value |-> <<>>]
OkValue(op, n, v) == [op |-> op, name |-> n, kind |-> "Ok", cause |-> "", value |-> v]
Err(op, n, kind, cause) ==
    [op |-> op, name |-> n, kind |-> kind, cause |-> cause, value |-> <<>>]

NoResult == [op |-> "none", name |-> NoName, kind |-> "", cause |-> "", value |-> <<>>]

\* self.plugins.get(name) missing the key but answering with some entry
\* (mutant: a lookup that never reports NotFound on a non-empty registry).
LookupAny(pl, n) ==
    IF pl = EmptyMap
    THEN [found |-> FALSE, adapter |-> NoAdapter, kind |-> "NotFound", payload |-> n]
    ELSE [found |-> TRUE,
          adapter |-> IF n \in DOMAIN pl THEN pl[n] ELSE pl[CHOOSE m \in DOMAIN pl : TRUE],
          kind |-> "Ok", payload |-> n]

\* self.plugins.get(name).cloned().ok_or_else(|| NotFound(name.to_string())).
Lookup(pl, n) ==
    IF n \in DOMAIN pl
    THEN [found |-> TRUE, adapter |-> pl[n], kind |-> "Ok", payload |-> n]
    ELSE [found |-> FALSE, adapter |-> NoAdapter, kind |-> "NotFound", payload |-> n]

\* version.unwrap_or(d) ignoring the given version (mutant: always d).
UnwrapOrDefault(opt, d) == d

\* Option<&str>: None is <<>>, Some(v) is <<v>>; version.unwrap_or(d).
UnwrapOr(opt, d) == IF opt = <<>> THEN d ELSE opt[1]

\* MockPlugin::install: format!("/tmp/test-{}-{}", self.metadata.name, version).
InstallPath(a, v) == <<"/tmp/test", Metadata(a).name, v>>

\* The test with || for && (mutant: one non-empty field is enough).
MetadataCompleteEither(m) == m.name # "" \/ m.version # ""

\* !metadata.name.is_empty() && !metadata.version.is_empty().
MetadataComplete(m) == m.name # "" /\ m.version # ""

\* The loop of validate_all_plugins over the entries in iteration order o, one
\* entry per step, starting from the summary {0, 0, []}.
RECURSIVE ValidateFrom(_, _, _)
ValidateFrom(o, pl, summary) ==
    IF o = <<>> THEN summary
    ELSE LET n == Head(o)
             next == IF MetadataComplete(Metadata(pl[n]))
                     THEN [summary EXCEPT !.valid_plugins = @ + 1]
                     ELSE [summary EXCEPT !.invalid_plugins = @ + 1,
                                          !.errors = Append(@, <<"incomplete", n>>)]
         IN  ValidateFrom(Tail(o), pl, next)

Validate(o, pl) ==
    ValidateFrom(o, pl, [valid_plugins |-> 0, invalid_plugins |-> 0, errors |-> <<>>])

\* One entry of the loop as the pass met it: its key, its adapter, the hook the
\* pass is about, what happened ("ok"/"err": the hook ran and returned that;
\* "refused": Arc::get_mut gave None and the hook was not invoked), the
\* references to the adapter at that moment, its status before.
Visit(n, a, hook, out) ==
    [name |-> n, adapter |-> a, hook |-> hook, outcome |-> out,
     outside |-> held[a], refs |-> StrongCount(a), before |-> status[a]]

\* The manager's owner calls one operation at a time and gets its result before
\* it calls the next.
Callable == pc = "idle" /\ result = NoResult

\* Dropping the last Arc of an adapter frees it: with registry pl and outside
\* handles hd, the adapters still alive keep their status (a freed one is gone;
\* its slot reads Inactive, as a later Arc::new(MockPlugin::new(..)) makes it).
Live(pl, hd, a) == hd[a] > 0 \/ \E n \in DOMAIN pl : pl[n] = a

Freed(pl, hd, st) == [a \in Adapters |-> IF Live(pl, hd, a) THEN st[a] ELSE "Inactive"]

\* --------------------------------------------------- project configuration
\* Option<T>: None is <<>>, Some(x) is <<x>>.  A HashMap is a function on its
\* key set.
NoSettings == [k \in {} |-> FALSE]

\* PluginConfig::new(name): disabled, no version, no source, no settings.
PluginConfigNew(n) ==
    [name |-> n, enabled |-> FALSE, version |-> <<>>, source |-> <<>>,
     settings |-> NoSettings, auto_update |-> FALSE]

\* The names plugin configurations are written for, and the PluginConfig values
\* the owner passes: new(name), and new(name) with enabled set.
ConfiguredNames == {1}
PluginConfigs ==
    {[PluginConfigNew(n) EXCEPT !.enabled = e] : n \in ConfiguredNames, e \in BOOLEAN}

NoPluginConfigs == [n \in {} |-> PluginConfigNew(n)]

\* GlobalSettings::default().
GlobalSettingsDefault ==
    [cache_dir |-> "~/.plm/cache", registry_url |-> "https://registry.plm.dev",
     auto_update |-> TRUE, parallel_downloads |-> 4, verify_checksums |-> TRUE,
     auto_discovery |-> TRUE, validate_on_install |-> TRUE, enable_hooks |-> TRUE,
     plugin_dir |-> "~/.plm/plugins", log_level |-> "info", download_timeout |-> 300]

\* PluginSource::registry(url).
SourceRegistry(url) ==
    [source_type |-> "Registry", url |-> url, branch |-> <<>>, tag |-> <<>>,
     token |-> <<>>]

\* default_for_project without its source (mutant: sources is left empty).
DefaultForProjectNoSource(name, root) ==
    [project |-> [name |-> name, version |-> "1.0.0", description |-> <<>>,
                  root_path |-> root],
     global_settings |-> GlobalSettingsDefault,
     plugins |-> NoPluginConfigs,
     sources |-> <<>>,
     project_name |-> name,
     project_root |-> root,
     version |-> "1.0.0",
     settings |-> GlobalSettingsDefault]

\* PluginSource::local(path).
SourceLocal(path) ==
    [source_type |-> "Local", url |-> path, branch |-> <<>>, tag |-> <<>>,
     token |-> <<>>]

\* ProjectConfig::default_for_project(name, root_path): no plugins declared,
\* one registry source, the legacy fields set from the same arguments (the two
\* timestamps of ProjectInfo, both Utc::now(), are left out).
DefaultForProject(name, root) ==
    [project |-> [name |-> name, version |-> "1.0.0", description |-> <<>>,
                  root_path |-> root],
     global_settings |-> GlobalSettingsDefault,
     plugins |-> NoPluginConfigs,
     sources |-> <<SourceRegistry("https://registry.plm.dev")>>,
     project_name |-> name,
     project_root |-> root,
     version |-> "1.0.0",
     settings |-> GlobalSettingsDefault]

\* add_plugin keeping what is declared (mutant: self.plugins.entry(name)
\* .or_insert(plugin), an entry already under the name stays).
ConfigAddPluginKeep(c, p) ==
    LET old == c.plugins
    IN  [c EXCEPT !.plugins =
            [k \in DOMAIN old \cup {p.name} |-> IF k \in DOMAIN old THEN old[k] ELSE p]]

\* ProjectConfig::add_plugin: self.plugins.insert(plugin.name.clone(), plugin).
ConfigAddPlugin(c, p) ==
    LET old == c.plugins
    IN  [c EXCEPT !.plugins =
            [k \in DOMAIN old \cup {p.name} |-> IF k = p.name THEN p ELSE old[k]]]

\* ProjectConfig::remove_plugin: self.plugins.remove(plugin_name).
ConfigRemovePlugin(c, n) ==
    LET old == c.plugins
    IN  [c EXCEPT !.plugins = [k \in DOMAIN old \ {n} |-> old[k]]]

\* ProjectConfig::get_plugin: Option<&PluginConfig>, None is <<>>.
ConfigGetPlugin(c, n) == IF n \in DOMAIN c.plugins THEN <<c.plugins[n]>> ELSE <<>>

\* The configurations the owner builds and hands to the manager:
\* default_for_project("test-project", "."), bare or with one add_plugin.
Configs ==
    {DefaultForProject("test-project", ".")} \cup
    {ConfigAddPlugin(DefaultForProject("test-project", "."), p) : p \in PluginConfigs}

\* serde_json::Value, by kind: Bool(b), Number(i), String(s).
JsonNull == <<"null", "">>
JsonBool(b) == <<"bool", b>>
JsonNumber(i) == <<"number", i>>
JsonString(s) == <<"string", s>>

\* set_setting keeping what is stored (mutant: self.settings.entry(key)
\* .or_insert(value), the first write wins).
SetSettingKeepFirst(p, k, v) ==
    LET old == p.settings
    IN  [p EXCEPT !.settings = [j \in DOMAIN old \cup {k} |-> IF j \in DOMAIN old THEN old[j] ELSE v]]

\* PluginConfig::set_setting: self.settings.insert(key, value).
SetSetting(p, k, v) ==
    LET old == p.settings
    IN  [p EXCEPT !.settings = [j \in DOMAIN old \cup {k} |-> IF j = k THEN v ELSE old[j]]]

\* PluginConfig::get_setting: self.settings.get(key).
GetSetting(p, k) == IF k \in DOMAIN p.settings THEN <<p.settings[k]>> ELSE <<>>

\* PluginConfig::remove_setting: self.settings.remove(key) (the config after it).
RemoveSetting(p, k) ==
    LET old == p.settings
    IN  [p EXCEPT !.settings = [j \in DOMAIN old \ {k} |-> old[j]]]

\* PluginConfig::clear_settings: self.settings.clear().
ClearSettings(p) == [p EXCEPT !.settings = NoSettings]

\* PluginConfig::set_version: self.version = Some(version).
SetVersion(p, v) == [p EXCEPT !.version = <<v>>]

\* PluginConfig::set_source: self.source = Some(source).
SetSource(p, s) == [p EXCEPT !.source = <<s>>]

\* The outcome of a ProjectConfig mutator that returns Result<(), String>:
\* whether it succeeded and the configuration afterwards.
Mutated(ok, c) == [ok |-> ok, config |-> c]

\* ProjectConfig::update_plugin_setting: set_setting on the entry found by
\* self.plugins.get_mut(plugin_name), Err("Plugin '..' not found") without one.
ConfigUpdatePluginSetting(c, n, k, v) ==
    IF n \in DOMAIN c.plugins
    THEN Mutated(TRUE, [c EXCEPT !.plugins[n] = SetSetting(@, k, v)])
    ELSE Mutated(FALSE, c)

\* enable_plugin creating what it does not find (mutant: an absent name gets a
\* new, enabled entry and the call succeeds).
ConfigEnablePluginUpsert(c, n) ==
    IF n \in DOMAIN c.plugins
    THEN Mutated(TRUE, [c EXCEPT !.plugins[n].enabled = TRUE])
    ELSE Mutated(TRUE, ConfigAddPlugin(c, [PluginConfigNew(n) EXCEPT !.enabled = TRUE]))

\* ProjectConfig::enable_plugin: plugin.enabled = true on the entry found by
\* self.plugins.get_mut(plugin_name), Err("Plugin '..' not found") without one.
ConfigEnablePlugin(c, n) ==
    IF n \in DOMAIN c.plugins
    THEN Mutated(TRUE, [c EXCEPT !.plugins[n].enabled = TRUE])
    ELSE Mutated(FALSE, c)

\* ProjectConfig::disable_plugin: plugin.enabled = false on the entry found,
\* Err without one.
ConfigDisablePlugin(c, n) ==
    IF n \in DOMAIN c.plugins
    THEN Mutated(TRUE, [c EXCEPT !.plugins[n].enabled = FALSE])
    ELSE Mutated(FALSE, c)

\* validate reading the structured fields (mutant: project.name and
\* project.root_path are tested in place of project_name and project_root).
ConfigValidateStructured(c) ==
    IF c.project.name = "" THEN "Project name cannot be empty"
    ELSE IF c.project.root_path = "" THEN "Project root cannot be empty"
    ELSE IF \E k \in DOMAIN c.plugins : c.plugins[k].name # k THEN "Plugin name mismatch"
    ELSE IF \E i \in DOMAIN c.sources : c.sources[i].url = ""
         THEN "Plugin source URL cannot be empty"
    ELSE "Ok"

\* ProjectConfig::validate: the four checks in their order; the first that fails
\* gives the ConfigError, with its message.
ConfigValidate(c) ==
    IF c.project_name = "" THEN "Project name cannot be empty"
    ELSE IF c.project_root = "" THEN "Project root cannot be empty"
    ELSE IF \E k \in DOMAIN c.plugins : c.plugins[k].name # k THEN "Plugin name mismatch"
    ELSE IF \E i \in DOMAIN c.sources : c.sources[i].url = ""
         THEN "Plugin source URL cannot be empty"
    ELSE "Ok"

\* ------------------------------------------------------------ JSON files
\* A JSON document is modelled by its structure: an object is a record or a
\* function on its member names, a scalar is a serde_json::Value as above.
\* Option<String>: None is written as null.
SerializeOptionString(o) == IF o = <<>> THEN JsonNull ELSE JsonString(o[1])

\* #[serde(rename_all = "lowercase")] on PluginSourceType.
SourceTypeName(t) ==
    CASE t = "Builtin"  -> "builtin"
      [] t = "Local"    -> "local"
      [] t = "Git"      -> "git"
      [] t = "Http"     -> "http"
      [] OTHER          -> "registry"

\* Serialize for PluginSource: source_type is written as member "type".
SerializeSource(s) ==
    [type |-> JsonString(SourceTypeName(s.source_type)), url |-> JsonString(s.url),
     branch |-> SerializeOptionString(s.branch), tag |-> SerializeOptionString(s.tag),
     token |-> SerializeOptionString(s.token)]

\* Serialize for PluginConfig losing the pin (mutant: version is written as
\* null whatever it holds).
SerializePluginConfigUnpinned(p) ==
    [name |-> JsonString(p.name), enabled |-> JsonBool(p.enabled),
     version |-> JsonNull,
     source |-> IF p.source = <<>> THEN JsonNull
                ELSE <<"object", SerializeSource(p.source[1])>>,
     settings |-> p.settings, auto_update |-> JsonBool(p.auto_update)]

\* Serialize for PluginConfig: the settings are JSON values already.
SerializePluginConfig(p) ==
    [name |-> JsonString(p.name), enabled |-> JsonBool(p.enabled),
     version |-> SerializeOptionString(p.version),
     source |-> IF p.source = <<>> THEN JsonNull
                ELSE <<"object", SerializeSource(p.source[1])>>,
     settings |-> p.settings, auto_update |-> JsonBool(p.auto_update)]

\* Serialize for GlobalSettings.
SerializeGlobalSettings(g) ==
    [cache_dir |-> JsonString(g.cache_dir), registry_url |-> JsonString(g.registry_url),
     auto_update |-> JsonBool(g.auto_update),
     parallel_downloads |-> JsonNumber(g.parallel_downloads),
     verify_checksums |-> JsonBool(g.verify_checksums),
     auto_discovery |-> JsonBool(g.auto_discovery),
     validate_on_install |-> JsonBool(g.validate_on_install),
     enable_hooks |-> JsonBool(g.enable_hooks), plugin_dir |-> JsonString(g.plugin_dir),
     log_level |-> JsonString(g.log_level),
     download_timeout |-> JsonNumber(g.download_timeout)]

\* Serialize for ProjectInfo.
SerializeProjectInfo(i) ==
    [name |-> JsonString(i.name), version |-> JsonString(i.version),
     description |-> SerializeOptionString(i.description),
     root_path |-> JsonString(i.root_path)]

\* serde_json::to_string_pretty(&config): every field of the struct, under its
\* own name.
Serialize(c) ==
    [project |-> SerializeProjectInfo(c.project),
     global_settings |-> SerializeGlobalSettings(c.global_settings),
     plugins |-> [k \in DOMAIN c.plugins |-> SerializePluginConfig(c.plugins[k])],
     sources |-> [i \in DOMAIN c.sources |-> SerializeSource(c.sources[i])],
     project_name |-> JsonString(c.project_name),
     project_root |-> JsonString(c.project_root),
     version |-> JsonString(c.version),
     settings |-> SerializeGlobalSettings(c.settings)]

\* Deserialize for an Option<String> member m of object o: None when the member
\* is null, and when it is missing.
DeserializeOptionString(o, m) ==
    IF m \notin DOMAIN o THEN <<>>
    ELSE IF o[m][1] = "null" THEN <<>> ELSE <<o[m][2]>>

\* The variant of PluginSourceType a lowercase name stands for.
SourceTypeOf(name) ==
    CASE name = "builtin" -> "Builtin"
      [] name = "local"   -> "Local"
      [] name = "git"     -> "Git"
      [] name = "http"    -> "Http"
      [] OTHER            -> "Registry"

\* Deserialize for PluginSource, PluginConfig, GlobalSettings, ProjectInfo.
DeserializeSource(o) ==
    [source_type |-> SourceTypeOf(o.type[2]), url |-> o.url[2],
     branch |-> DeserializeOptionString(o, "branch"),
     tag |-> DeserializeOptionString(o, "tag"),
     token |-> DeserializeOptionString(o, "token")]

DeserializePluginConfig(o) ==
    [name |-> o.name[2], enabled |-> o.enabled[2],
     version |-> DeserializeOptionString(o, "version"),
     source |-> IF "source" \notin DOMAIN o THEN <<>>
                ELSE IF o.source[1] = "null" THEN <<>>
                ELSE <<DeserializeSource(o.source[2])>>,
     settings |-> o.settings, auto_update |-> o.auto_update[2]]

DeserializeGlobalSettings(o) ==
    [cache_dir |-> o.cache_dir[2], registry_url |-> o.registry_url[2],
     auto_update |-> o.auto_update[2],
     parallel_downloads |-> o.parallel_downloads[2],
     verify_checksums |-> o.verify_checksums[2],
     auto_discovery |-> o.auto_discovery[2],
     validate_on_install |-> o.validate_on_install[2],
     enable_hooks |-> o.enable_hooks[2], plugin_dir |-> o.plugin_dir[2],
     log_level |-> o.log_level[2], download_timeout |-> o.download_timeout[2]]

DeserializeProjectInfo(o) ==
    [name |-> o.name[2], version |-> o.version[2],
     description |-> DeserializeOptionString(o, "description"),
     root_path |-> o.root_path[2]]

\* serde_json::from_str succeeds on a document: no field has a serde default, so
\* every member of ProjectConfig and every member of a PluginConfig that is not
\* an Option must be there.
Parses(doc) ==
    /\ {"project", "global_settings", "plugins", "sources", "project_name",
        "project_root", "version", "settings"} \subseteq DOMAIN doc
    /\ \A k \in DOMAIN doc.plugins :
           {"name", "enabled", "settings", "auto_update"} \subseteq DOMAIN doc.plugins[k]

\* from_str skipping the legacy members (mutant: project_name, project_root and
\* version come back empty, as under #[serde(skip)]).
DeserializeSkipLegacy(doc) ==
    [project |-> DeserializeProjectInfo(doc.project),
     global_settings |-> DeserializeGlobalSettings(doc.global_settings),
     plugins |-> [k \in DOMAIN doc.plugins |-> DeserializePluginConfig(doc.plugins[k])],
     sources |-> [i \in DOMAIN doc.sources |-> DeserializeSource(doc.sources[i])],
     project_name |-> "",
     project_root |-> "",
     version |-> "",
     settings |-> DeserializeGlobalSettings(doc.settings)]

\* serde_json::from_str::<ProjectConfig>(&content) on a document that parses.
Deserialize(doc) ==
    [project |-> DeserializeProjectInfo(doc.project),
     global_settings |-> DeserializeGlobalSettings(doc.global_settings),
     plugins |-> [k \in DOMAIN doc.plugins |-> DeserializePluginConfig(doc.plugins[k])],
     sources |-> [i \in DOMAIN doc.sources |-> DeserializeSource(doc.sources[i])],
     project_name |-> doc.project_name[2],
     project_root |-> doc.project_root[2],
     version |-> doc.version[2],
     settings |-> DeserializeGlobalSettings(doc.settings)]

\* The configuration slot of a manager that no longer exists.
NoConfig == DefaultForProject("", "")

\* ------------------------------------------------------------------ Init
Init ==
    /\ plugins = EmptyMap
    /\ config = DefaultForProject("default", ".")
    /\ status = [a \in Adapters |-> "Inactive"]
    /\ held = [a \in Adapters |-> 0]
    /\ using = NoAdapter
    /\ pc = "idle"
    /\ iter = <<>>
    /\ running = NoAdapter
    /\ cur = NoName
    /\ visits = <<>>
    /\ pre = EmptyMap
    /\ calls = {}
    /\ result = NoResult
    /\ afterInit = FALSE
    /\ since = <<>>

\* ------------------------------------------------ callers outside the manager
\* Arc::new(MockPlugin::new(..)): a fresh adapter, Inactive, held by its creator.
NewAdapter(a) ==
    /\ ~Live(plugins, held, a)
    /\ Cardinality({b \in Adapters : Live(plugins, held, b)}) < MaxLive
    /\ held' = [held EXCEPT ![a] = 1]
    /\ status' = [status EXCEPT ![a] = "Inactive"]
    /\ UNCHANGED <<config, plugins, using, pc, iter, running, cur, visits, pre, calls,
                   result, afterInit, since>>

\* A holder drops a handle (the one it is running an operation through stays
\* borrowed until the operation returns).
DropHandle(a) ==
    /\ held[a] > (IF using = a THEN 1 ELSE 0)
    /\ held' = [held EXCEPT ![a] = @ - 1]
    /\ status' = Freed(plugins, held', status)
    /\ UNCHANGED <<config, plugins, using, pc, iter, running, cur, visits, pre, calls,
                   result, afterInit, since>>

\* A holder starts / finishes a &self operation (install, uninstall, metadata,
\* status, ...) on the adapter behind its handle.
HandleOpBegin(a) ==
    /\ using = NoAdapter
    /\ held[a] > 0
    /\ using' = a
    /\ UNCHANGED <<config, plugins, status, held, pc, iter, running, cur, visits, pre,
                   calls, result, afterInit, since>>

HandleOpEnd ==
    /\ using # NoAdapter
    /\ using' = NoAdapter
    /\ UNCHANGED <<config, plugins, status, held, pc, iter, running, cur, visits, pre,
                   calls, result, afterInit, since>>

\* register_plugin_for_test keeping the first adapter registered under a name
\* (mutant: self.plugins.entry(name).or_insert(plugin)).
RegisterPluginForTestKeepFirst(n, a, keep) ==
    /\ Callable
    /\ held[a] > (IF using = a THEN 1 ELSE 0)
    /\ plugins' = [m \in DOMAIN plugins \cup {n} |->
                     IF m \in DOMAIN plugins THEN plugins[m] ELSE a]
    /\ held' = IF keep THEN held ELSE [held EXCEPT ![a] = @ - 1]
    /\ pre' = plugins
    /\ calls' = {}
    /\ status' = Freed(plugins', held', status)
    /\ result' = OkValue("register", n, a)
    /\ UNCHANGED <<config, using, pc, iter, running, cur, visits, afterInit, since>>

\* register_plugin_for_test initializing what it registers (mutant: the
\* adapter's initialize() is run on registration when the Arc is unshared).
RegisterPluginForTestInit(n, a, keep) ==
    /\ Callable
    /\ held[a] > (IF using = a THEN 1 ELSE 0)
    /\ plugins' = [m \in DOMAIN plugins \cup {n} |-> IF m = n THEN a ELSE plugins[m]]
    /\ held' = IF keep THEN held ELSE [held EXCEPT ![a] = @ - 1]
    /\ pre' = plugins
    /\ calls' = {}
    /\ status' = Freed(plugins', held',
                       IF held'[a] = 0 /\ \A m \in DOMAIN plugins : plugins[m] # a
                       THEN [status EXCEPT ![a] = "Active"] ELSE status)
    /\ result' = OkValue("register", n, a)
    /\ UNCHANGED <<config, using, pc, iter, running, cur, visits, afterInit, since>>

\* ---------------------------------------------------------- registration
\* register_plugin_for_test(name, plugin): the caller passes a handle it holds
\* (moved in), or a clone of it (keep).
RegisterPluginForTest(n, a, keep) ==
    /\ Callable
    /\ held[a] > (IF using = a THEN 1 ELSE 0)
    /\ plugins' = [m \in DOMAIN plugins \cup {n} |-> IF m = n THEN a ELSE plugins[m]]
    /\ held' = IF keep THEN held ELSE [held EXCEPT ![a] = @ - 1]
    /\ pre' = plugins
    /\ calls' = {}
    /\ status' = Freed(plugins', held', status)
    /\ result' = OkValue("register", n, a)
    /\ UNCHANGED <<config, using, pc, iter, running, cur, visits, afterInit, since>>

\* ------------------------------------------------------------ initialize
InitializeBegin ==
    /\ Callable
    /\ pc' = "initialize"
    /\ iter' \in Orders(DOMAIN plugins)
    /\ visits' = <<>>
    /\ pre' = plugins
    /\ calls' = {}
    /\ UNCHANGED <<config, plugins, status, held, using, running, cur, result, afterInit, since>>

\* initialize() passing over a shared Arc (mutant: warn and skip, no error).
InitializeVisitSkip ==
    /\ pc = "initialize" /\ running = NoAdapter /\ iter # <<>>
    /\ LET n == Head(iter)
           a == plugins[n]
       IN  /\ iter' = Tail(iter)
           /\ IF ArcGetMut(a)
              THEN /\ running' = a
                   /\ cur' = n
                   /\ UNCHANGED visits
              ELSE /\ visits' = Append(visits, Visit(n, a, "initialize", "refused"))
                   /\ UNCHANGED <<running, cur>>
    /\ UNCHANGED <<config, plugins, status, held, using, pc, pre, calls, result, afterInit, since>>

\* initialize() gated by the adapter's status (mutant: an adapter that is
\* Active already is passed over, its initialize() is not invoked again).
InitializeVisitInactive ==
    /\ pc = "initialize" /\ running = NoAdapter /\ iter # <<>>
    /\ LET n == Head(iter)
           a == plugins[n]
       IN  /\ iter' = Tail(iter)
           /\ IF status[a] = "Active"
              THEN UNCHANGED <<running, cur, pc, visits, result, afterInit, since>>
              ELSE IF ArcGetMut(a)
              THEN /\ running' = a
                   /\ cur' = n
                   /\ UNCHANGED <<pc, visits, result, afterInit, since>>
              ELSE /\ visits' = Append(visits, Visit(n, a, "initialize", "refused"))
                   /\ pc' = "idle"
                   /\ result' = Err("initialize", n, "PluginError", "no_mut_ref")
                   /\ UNCHANGED <<running, cur, afterInit, since>>
    /\ UNCHANGED <<config, plugins, status, held, using, pre, calls>>

\* Next entry of the loop: Arc::get_mut(plugin).ok_or_else(..)? aborts the call
\* when the Arc is shared, otherwise the adapter's initialize() starts.
InitializeVisit ==
    /\ pc = "initialize" /\ running = NoAdapter /\ iter # <<>>
    /\ LET n == Head(iter)
           a == plugins[n]
       IN  /\ iter' = Tail(iter)
           /\ IF ArcGetMut(a)
              THEN /\ running' = a
                   /\ cur' = n
                   /\ UNCHANGED <<pc, visits, result, afterInit, since>>
              ELSE /\ visits' = Append(visits, Visit(n, a, "initialize", "refused"))
                   /\ pc' = "idle"
                   /\ result' = Err("initialize", n, "PluginError", "no_mut_ref")
                   /\ UNCHANGED <<running, cur, afterInit, since>>
    /\ UNCHANGED <<config, plugins, status, held, using, pre, calls>>

\* initialize() treating a failed hook as shutdown() does (mutant: warn and go on).
InitializeHookReturnSoft(ok) ==
    /\ pc = "initialize" /\ running # NoAdapter
    /\ visits' = Append(visits,
                   Visit(cur, running, "initialize", IF ok THEN "ok" ELSE "err"))
    /\ running' = NoAdapter
    /\ cur' = NoName
    /\ status' = IF ok THEN [status EXCEPT ![running] = "Active"] ELSE status
    /\ UNCHANGED <<config, plugins, held, using, pc, iter, pre, calls, result, afterInit, since>>

\* initialize() undoing its pass on failure (mutant: the adapters initialized so
\* far are shut down again before the error is returned).
InitializeHookReturnRollback(ok) ==
    /\ pc = "initialize" /\ running # NoAdapter
    /\ visits' = Append(visits,
                   Visit(cur, running, "initialize", IF ok THEN "ok" ELSE "err"))
    /\ running' = NoAdapter
    /\ cur' = NoName
    /\ IF ok
       THEN /\ status' = [status EXCEPT ![running] = "Active"]
            /\ UNCHANGED <<pc, result>>
       ELSE /\ pc' = "idle"
            /\ result' = Err("initialize", cur, "PluginError", "init_failed")
            /\ status' = [a \in Adapters |->
                            IF \E i \in DOMAIN visits : visits[i].adapter = a
                            THEN "Inactive" ELSE status[a]]
    /\ UNCHANGED <<config, plugins, held, using, iter, pre, calls, afterInit, since>>

\* The adapter's initialize() returns: Ok (MockPlugin sets Active) or Err.
InitializeHookReturn(ok) ==
    /\ pc = "initialize" /\ running # NoAdapter
    /\ visits' = Append(visits,
                   Visit(cur, running, "initialize", IF ok THEN "ok" ELSE "err"))
    /\ running' = NoAdapter
    /\ cur' = NoName
    /\ IF ok
       THEN /\ status' = [status EXCEPT ![running] = "Active"]
            /\ UNCHANGED <<pc, result, afterInit, since>>
       ELSE /\ pc' = "idle"
            /\ result' = Err("initialize", cur, "PluginError", "init_failed")
            /\ UNCHANGED <<status, afterInit, since>>
    /\ UNCHANGED <<config, plugins, held, using, iter, pre, calls>>

InitializeReturn ==
    /\ pc = "initialize" /\ running = NoAdapter /\ iter = <<>>
    /\ pc' = "idle"
    /\ result' = Ok("initialize", NoName)
    /\ UNCHANGED <<config, plugins, status, held, using, iter, running, cur, visits, pre,
                   calls, afterInit, since>>

\* -------------------------------------------------------------- shutdown
ShutdownBegin ==
    /\ Callable
    /\ pc' = "shutdown"
    /\ iter' \in Orders(DOMAIN plugins)
    /\ visits' = <<>>
    /\ pre' = plugins
    /\ calls' = {}
    /\ UNCHANGED <<config, plugins, status, held, using, running, cur, result, afterInit, since>>

\* Next entry of the loop: the same Arc::get_mut(plugin).ok_or_else(..)? as in
\* initialize() returns the error to the caller, before self.plugins.clear().
ShutdownVisit ==
    /\ pc = "shutdown" /\ running = NoAdapter /\ iter # <<>>
    /\ LET n == Head(iter)
           a == plugins[n]
       IN  /\ iter' = Tail(iter)
           /\ IF ArcGetMut(a)
              THEN /\ running' = a
                   /\ cur' = n
                   /\ UNCHANGED <<pc, visits, result, afterInit, since>>
              ELSE /\ visits' = Append(visits, Visit(n, a, "shutdown", "refused"))
                   /\ pc' = "idle"
                   /\ result' = Err("shutdown", n, "PluginError", "no_mut_ref")
                   /\ UNCHANGED <<running, cur, afterInit, since>>
    /\ UNCHANGED <<config, plugins, status, held, using, pre, calls>>

\* The adapter's shutdown() returns: Ok (MockPlugin sets Inactive) or Err, which
\* is only printed as a warning; the loop goes on either way.
ShutdownHookReturn(ok) ==
    /\ pc = "shutdown" /\ running # NoAdapter
    /\ visits' = Append(visits,
                   Visit(cur, running, "shutdown", IF ok THEN "ok" ELSE "err"))
    /\ running' = NoAdapter
    /\ cur' = NoName
    /\ status' = IF ok THEN [status EXCEPT ![running] = "Inactive"] ELSE status
    /\ UNCHANGED <<config, plugins, held, using, pc, iter, pre, calls, result, afterInit, since>>

\* shutdown() returning without self.plugins.clear() (mutant).
ShutdownReturnKeep ==
    /\ pc = "shutdown" /\ running = NoAdapter /\ iter = <<>>
    /\ pc' = "idle"
    /\ result' = Ok("shutdown", NoName)
    /\ UNCHANGED <<config, plugins, status, held, using, iter, running, cur, visits, pre,
                   calls, afterInit, since>>

\* shutdown() keeping what it could not shut down (mutant: the entries whose
\* shutdown() failed stay in the registry).
ShutdownReturnRetain ==
    /\ pc = "shutdown" /\ running = NoAdapter /\ iter = <<>>
    /\ plugins' = [n \in {visits[i].name : i \in {j \in DOMAIN visits : visits[j].outcome = "err"}}
                      |-> plugins[n]]
    /\ status' = Freed(plugins', held, status)
    /\ pc' = "idle"
    /\ result' = Ok("shutdown", NoName)
    /\ UNCHANGED <<config, held, using, iter, running, cur, visits, pre, calls, afterInit, since>>

\* After the loop: self.plugins.clear(); Ok(()).
ShutdownReturn ==
    /\ pc = "shutdown" /\ running = NoAdapter /\ iter = <<>>
    /\ plugins' = EmptyMap
    /\ status' = Freed(plugins', held, status)
    /\ pc' = "idle"
    /\ result' = Ok("shutdown", NoName)
    /\ UNCHANGED <<config, held, using, iter, running, cur, visits, pre, calls, afterInit, since>>

\* get_plugin(name) taking the entry out of the map instead of cloning it
\* (mutant: self.plugins.remove(name)).
GetPluginTake(n) ==
    /\ Callable
    /\ LET got == Lookup(plugins, n)
       IN  /\ got.found => held[got.adapter] < MaxHeld
           /\ IF got.found
              THEN /\ held' = [held EXCEPT ![got.adapter] = @ + 1]
                   /\ plugins' = [m \in DOMAIN plugins \ {n} |-> plugins[m]]
                   /\ result' = OkValue("get_plugin", n, got.adapter)
              ELSE /\ result' = Err("get_plugin", n, got.kind, got.payload)
                   /\ UNCHANGED <<held, plugins>>
    /\ pre' = plugins
    /\ calls' = {}
    /\ UNCHANGED <<config, status, using, pc, iter, running, cur, visits, afterInit, since>>

\* get_plugin(name) handing out a handle to another instance than the
\* registered one (mutant: a copy is made for the caller).
GetPluginCopy(n) ==
    /\ Callable
    /\ LET got == Lookup(plugins, n)
       IN  IF got.found
           THEN /\ result' = OkValue("get_plugin", n,
                                CHOOSE b \in Adapters : b # got.adapter)
                /\ UNCHANGED held
           ELSE /\ result' = Err("get_plugin", n, got.kind, got.payload)
                /\ UNCHANGED held
    /\ pre' = plugins
    /\ calls' = {}
    /\ UNCHANGED <<config, plugins, status, using, pc, iter, running, cur, visits,
                   afterInit, since>>

\* ------------------------------------------------- per-name operations
\* get_plugin(name): a clone of the registered Arc, or NotFound(name).
GetPlugin(n) ==
    /\ Callable
    /\ LET got == Lookup(plugins, n)
       IN  /\ got.found => held[got.adapter] < MaxHeld
           /\ IF got.found
              THEN /\ held' = [held EXCEPT ![got.adapter] = @ + 1]
                   /\ result' = OkValue("get_plugin", n, got.adapter)
              ELSE /\ result' = Err("get_plugin", n, got.kind, got.payload)
                   /\ UNCHANGED held
    /\ pre' = plugins
    /\ calls' = {}
    /\ UNCHANGED <<config, plugins, status, using, pc, iter, running, cur, visits, afterInit, since>>

\* install_plugin keeping track of what it installed (mutant: a successful
\* installation declares the plugin, pinned to the version, in the held
\* configuration).
InstallPluginRecord(n, version, options, ok) ==
    /\ Callable
    /\ LET got == Lookup(plugins, n)
           v == UnwrapOr(version, "latest")
       IN  IF got.found
           THEN /\ calls' = {[adapter |-> got.adapter, op |-> "install",
                              version |-> v, options |-> options]}
                /\ result' = IF ok
                              THEN OkValue("install_plugin", n, InstallPath(got.adapter, v))
                              ELSE Err("install_plugin", n, "InstallationError", v)
                /\ config' = IF ok
                             THEN ConfigAddPlugin(config, SetVersion(PluginConfigNew(n), v))
                             ELSE config
           ELSE /\ calls' = {}
                /\ result' = Err("install_plugin", n, got.kind, got.payload)
                /\ config' = config
    /\ pre' = plugins
    /\ UNCHANGED <<plugins, status, held, using, pc, iter, running, cur, visits,
                   afterInit, since>>

\* install_plugin(name, version, options): get_plugin(name)?, then the adapter's
\* install(version.unwrap_or("latest"), options), whose result is returned as is
\* (the Arc cloned for the call is dropped when it returns).
InstallPlugin(n, version, options, ok) ==
    /\ Callable
    /\ LET got == Lookup(plugins, n)
           v == UnwrapOr(version, "latest")
       IN  IF got.found
           THEN /\ calls' = {[adapter |-> got.adapter, op |-> "install",
                              version |-> v, options |-> options]}
                /\ result' = IF ok
                              THEN OkValue("install_plugin", n, InstallPath(got.adapter, v))
                              ELSE Err("install_plugin", n, "InstallationError", v)
           ELSE /\ calls' = {}
                /\ result' = Err("install_plugin", n, got.kind, got.payload)
    /\ pre' = plugins
    /\ UNCHANGED <<config, plugins, status, held, using, pc, iter, running, cur, visits,
                   afterInit, since>>

\* uninstall_plugin(name, version): get_plugin(name)?, then the adapter's
\* uninstall(version).
UninstallPlugin(n, v, ok) ==
    /\ Callable
    /\ LET got == Lookup(plugins, n)
       IN  IF got.found
           THEN /\ calls' = {[adapter |-> got.adapter, op |-> "uninstall",
                              version |-> v, options |-> "none"]}
                /\ result' = IF ok THEN Ok("uninstall_plugin", n)
                                   ELSE Err("uninstall_plugin", n, "PluginError", v)
           ELSE /\ calls' = {}
                /\ result' = Err("uninstall_plugin", n, got.kind, got.payload)
    /\ pre' = plugins
    /\ UNCHANGED <<config, plugins, status, held, using, pc, iter, running, cur, visits,
                   afterInit, since>>

\* list_plugins() listing only what is running (mutant: the names whose adapter
\* is Active).
ListPluginsActive ==
    /\ Callable
    /\ pre' = plugins
    /\ calls' = {}
    /\ \E o \in Orders({n \in DOMAIN plugins : status[plugins[n]] = "Active"}) :
           result' = OkValue("list_plugins", NoName, o)
    /\ UNCHANGED <<config, plugins, status, held, using, pc, iter, running, cur, visits,
                   afterInit, since>>

\* -------------------------------------------------- whole-registry queries
\* list_plugins(): the keys, in the map's iteration order.
ListPlugins ==
    /\ Callable
    /\ pre' = plugins
    /\ calls' = {}
    /\ \E o \in Orders(DOMAIN plugins) : result' = OkValue("list_plugins", NoName, o)
    /\ UNCHANGED <<config, plugins, status, held, using, pc, iter, running, cur, visits,
                   afterInit, since>>

\* discover_plugins() counting the adapters instead of the entries (mutant: an
\* adapter registered under two names is counted once).
DiscoverPluginsDistinct ==
    /\ Callable
    /\ pre' = plugins
    /\ calls' = {}
    /\ result' = OkValue("discover_plugins", NoName,
                         Cardinality({plugins[n] : n \in DOMAIN plugins}))
    /\ UNCHANGED <<config, plugins, status, held, using, pc, iter, running, cur, visits,
                   afterInit, since>>

\* discover_plugins(): Ok(self.plugins.len()).
DiscoverPlugins ==
    /\ Callable
    /\ pre' = plugins
    /\ calls' = {}
    /\ result' = OkValue("discover_plugins", NoName, Cardinality(DOMAIN plugins))
    /\ UNCHANGED <<config, plugins, status, held, using, pc, iter, running, cur, visits,
                   afterInit, since>>

\* validate_all_plugins(): the summary of one loop over the map.
ValidateAllPlugins ==
    /\ Callable
    /\ pre' = plugins
    /\ calls' = {}
    /\ \E o \in Orders(DOMAIN plugins) :
           result' = OkValue("validate_all_plugins", NoName, Validate(o, plugins))
    /\ UNCHANGED <<config, plugins, status, held, using, pc, iter, running, cur, visits,
                   afterInit, since>>

\* ------------------------------------------------- configuration accessors
\* get_config(): &self.config.
GetConfig ==
    /\ Callable
    /\ pre' = plugins
    /\ calls' = {}
    /\ result' = OkValue("get_config", NoName, config)
    /\ UNCHANGED <<config, plugins, status, held, using, pc, iter, running, cur,
                   visits, afterInit, since>>

\* update_config(config): self.config = config.
UpdateConfig(c) ==
    /\ Callable
    /\ config' = c
    /\ pre' = plugins
    /\ calls' = {}
    /\ result' = Ok("update_config", NoName)
    /\ UNCHANGED <<plugins, status, held, using, pc, iter, running, cur, visits,
                   afterInit, since>>

\* add_plugin_config(plugin_config): self.config.add_plugin(plugin_config).
AddPluginConfig(p) ==
    /\ Callable
    /\ config' = ConfigAddPlugin(config, p)
    /\ pre' = plugins
    /\ calls' = {}
    /\ result' = Ok("add_plugin_config", p.name)
    /\ UNCHANGED <<plugins, status, held, using, pc, iter, running, cur, visits,
                   afterInit, since>>

\* remove_plugin_config(name) unregistering the plugin as well (mutant: the
\* registry entry of the name goes with its configuration).
RemovePluginConfigUnregister(n) ==
    /\ Callable
    /\ config' = ConfigRemovePlugin(config, n)
    /\ plugins' = [m \in DOMAIN plugins \ {n} |-> plugins[m]]
    /\ status' = Freed(plugins', held, status)
    /\ pre' = plugins
    /\ calls' = {}
    /\ result' = Ok("remove_plugin_config", n)
    /\ UNCHANGED <<held, using, pc, iter, running, cur, visits, afterInit, since>>

\* remove_plugin_config(name): self.config.remove_plugin(name).
RemovePluginConfig(n) ==
    /\ Callable
    /\ config' = ConfigRemovePlugin(config, n)
    /\ pre' = plugins
    /\ calls' = {}
    /\ result' = Ok("remove_plugin_config", n)
    /\ UNCHANGED <<plugins, status, held, using, pc, iter, running, cur, visits,
                   afterInit, since>>

\* get_plugin_config(name): self.config.get_plugin(name).
GetPluginConfig(n) ==
    /\ Callable
    /\ pre' = plugins
    /\ calls' = {}
    /\ result' = OkValue("get_plugin_config", n, ConfigGetPlugin(config, n))
    /\ UNCHANGED <<config, plugins, status, held, using, pc, iter, running, cur,
                   visits, afterInit, since>>

\* Drop::drop cleaning up (mutant: every adapter still registered is shut down
\* before the manager goes).
DropManagerShutdown ==
    /\ Callable
    /\ pc' = "dropped"
    /\ result' = OkValue("drop", NoName,
                    IF plugins # EmptyMap
                    THEN <<"warning", Cardinality(DOMAIN plugins)>> ELSE <<>>)
    /\ pre' = plugins
    /\ calls' = {}
    /\ plugins' = EmptyMap
    /\ config' = NoConfig
    /\ status' = Freed(plugins', held,
                       [a \in Adapters |->
                           IF \E n \in DOMAIN plugins : plugins[n] = a
                           THEN "Inactive" ELSE status[a]])
    /\ UNCHANGED <<held, using, iter, running, cur, visits, afterInit, since>>

\* ------------------------------------------------ discarding and constructing
\* The owner lets the manager go out of scope. Drop::drop prints the warning
\* with the number of entries when the registry is not empty; then the fields
\* are dropped, and with the map its Arcs.
DropManager ==
    /\ Callable
    /\ pc' = "dropped"
    /\ result' = OkValue("drop", NoName,
                    IF plugins # EmptyMap
                    THEN <<"warning", Cardinality(DOMAIN plugins)>> ELSE <<>>)
    /\ pre' = plugins
    /\ calls' = {}
    /\ plugins' = EmptyMap
    /\ config' = NoConfig
    /\ status' = Freed(plugins', held, status)
    /\ UNCHANGED <<held, using, iter, running, cur, visits, afterInit, since>>

\* PluginManager::new() (lib.rs init_default): the default configuration and
\* an empty registry.
New ==
    /\ pc = "dropped" /\ result = NoResult
    /\ pc' = "idle"
    /\ plugins' = EmptyMap
    /\ config' = DefaultForProject("default", ".")
    /\ pre' = plugins
    /\ calls' = {}
    /\ result' = Ok("new", NoName)
    /\ UNCHANGED <<status, held, using, iter, running, cur, visits, afterInit, since>>

\* from_project_config loading what the configuration enables (mutant: an
\* adapter is put in the registry for every enabled plugin declared).
FromProjectConfigLoad(c) ==
    /\ pc = "dropped" /\ result = NoResult
    /\ pc' = "idle"
    /\ plugins' = [n \in {k \in DOMAIN c.plugins : c.plugins[k].enabled} |-> "mock"]
    /\ config' = c
    /\ pre' = plugins
    /\ calls' = {}
    /\ result' = OkValue("from_project_config", NoName, c)
    /\ UNCHANGED <<status, held, using, iter, running, cur, visits, afterInit, since>>

\* PluginManager::from_project_config(config) (lib.rs init_from_config, once the
\* file is loaded): the given configuration and an empty registry.
FromProjectConfig(c) ==
    /\ pc = "dropped" /\ result = NoResult
    /\ pc' = "idle"
    /\ plugins' = EmptyMap
    /\ config' = c
    /\ pre' = plugins
    /\ calls' = {}
    /\ result' = OkValue("from_project_config", NoName, c)
    /\ UNCHANGED <<status, held, using, iter, running, cur, visits, afterInit, since>>

\* The caller takes the returned value (let result = manager.op().await) and
\* goes on; what the operation recorded for it is dropped.
TakeResult ==
    /\ pc \in {"idle", "dropped"} /\ result # NoResult
    /\ afterInit' = (result.op = "initialize" /\ result.kind = "Ok")
    /\ result' = NoResult
    /\ iter' = <<>>
    /\ visits' = <<>>
    /\ pre' = EmptyMap
    /\ calls' = {}
    /\ UNCHANGED <<config, plugins, status, held, using, pc, running, cur, since>>

\* The same, by a caller that keeps track of what it has registered since the
\* last shutdown() that returned Ok.
TakeResultSince ==
    /\ pc = "idle" /\ result # NoResult
    /\ since' =
           CASE result.op = "shutdown" /\ result.kind = "Ok" -> <<EmptyMap>>
             [] result.op = "register" /\ since # <<>> ->
                    <<[m \in DOMAIN since[1] \cup {result.name} |->
                          IF m = result.name THEN result.value ELSE since[1][m]]>>
             [] OTHER -> since
    /\ afterInit' = (result.op = "initialize" /\ result.kind = "Ok")
    /\ result' = NoResult
    /\ iter' = <<>>
    /\ visits' = <<>>
    /\ pre' = EmptyMap
    /\ calls' = {}
    /\ UNCHANGED <<config, plugins, status, held, using, pc, running, cur>>

\* ------------------------------------------- ProjectConfig and its callers
\* A method of ProjectConfig or PluginConfig returns r to its caller: the
\* manager's registry is out of its reach.
Returns(r) ==
    /\ pre' = plugins
    /\ calls' = {}
    /\ result' = r
    /\ UNCHANGED <<plugins, status, held, using, pc, iter, running, cur, visits,
                   afterInit, since>>

\* The plugin names configurations are written for in ConfigSpec, the project
\* names and roots given to default_for_project, the (key, value) pairs given
\* to set_setting, the version pinned by set_version, the path given to
\* PluginSource::local.
PluginNames == {1, 2}
ProjectNames == {"test-project", "demo"}
ProjectRoots == {".", "/tmp"}
SettingKeys == {"debug", "timeout"}
SettingArgs ==
    {<<"debug", JsonBool(TRUE)>>, <<"timeout", JsonNumber(30)>>,
     <<"timeout", JsonString("test")>>}
PinnedVersion == "1.0.0"
LocalPath == "/usr/local/test-plugin"

\* The PluginConfig values given to add_plugin: new(name), enabled or not, as
\* it is or after set_version and set_source.
NewPluginConfigs ==
    {[PluginConfigNew(n) EXCEPT !.enabled = e] : n \in PluginNames, e \in BOOLEAN}
    \cup
    {SetSource(SetVersion([PluginConfigNew(n) EXCEPT !.enabled = e], PinnedVersion),
               SourceLocal(LocalPath)) : n \in PluginNames, e \in BOOLEAN}

\* let config = ProjectConfig::default_for_project(name, root).
DefaultConfig(name, root) ==
    /\ Callable
    /\ config' = DefaultForProject(name, root)
    /\ Returns(OkValue("default_for_project", NoName, <<name, root>>))

\* config.add_plugin(p).
AddPlugin(p) ==
    /\ Callable
    /\ config' = ConfigAddPlugin(config, p)
    /\ Returns(OkValue("add_plugin", p.name, p))

\* config.remove_plugin(n): the entry removed, if there was one.
RemovePlugin(n) ==
    /\ Callable
    /\ config' = ConfigRemovePlugin(config, n)
    /\ Returns(OkValue("remove_plugin", n, ConfigGetPlugin(config, n)))

\* config.enable_plugin(n).
EnablePlugin(n) ==
    /\ Callable
    /\ LET m == ConfigEnablePlugin(config, n)
       IN  /\ config' = m.config
           /\ Returns(IF m.ok THEN Ok("enable_plugin", n)
                      ELSE Err("enable_plugin", n, "String", "not found"))

\* config.disable_plugin(n).
DisablePlugin(n) ==
    /\ Callable
    /\ LET m == ConfigDisablePlugin(config, n)
       IN  /\ config' = m.config
           /\ Returns(IF m.ok THEN Ok("disable_plugin", n)
                      ELSE Err("disable_plugin", n, "String", "not found"))

\* config.update_plugin_setting(n, k, v).
UpdatePluginSetting(n, k, v) ==
    /\ Callable
    /\ LET m == ConfigUpdatePluginSetting(config, n, k, v)
       IN  /\ config' = m.config
           /\ Returns(IF m.ok THEN OkValue("update_plugin_setting", n, <<k, v>>)
                      ELSE Err("update_plugin_setting", n, "String", "not found"))

\* config.get_plugin_mut(n).unwrap().set_setting(k, v).
PluginSetSetting(n, k, v) ==
    /\ Callable
    /\ n \in DOMAIN config.plugins
    /\ config' = [config EXCEPT !.plugins[n] = SetSetting(@, k, v)]
    /\ Returns(OkValue("set_setting", n, <<k, v>>))

\* config.get_plugin(n).unwrap().get_setting(k).
PluginGetSetting(n, k) ==
    /\ Callable
    /\ n \in DOMAIN config.plugins
    /\ UNCHANGED config
    /\ Returns(OkValue("get_setting", n, <<k, GetSetting(config.plugins[n], k)>>))

\* config.get_plugin_mut(n).unwrap().remove_setting(k): the value removed.
PluginRemoveSetting(n, k) ==
    /\ Callable
    /\ n \in DOMAIN config.plugins
    /\ config' = [config EXCEPT !.plugins[n] = RemoveSetting(@, k)]
    /\ Returns(OkValue("remove_setting", n, <<k, GetSetting(config.plugins[n], k)>>))

\* config.get_plugin_mut(n).unwrap().clear_settings().
PluginClearSettings(n) ==
    /\ Callable
    /\ n \in DOMAIN config.plugins
    /\ config' = [config EXCEPT !.plugins[n] = ClearSettings(@)]
    /\ Returns(Ok("clear_settings", n))

\* config.validate(): Ok, or ConfigError with the message of the first check
\* that fails.
ValidateConfig ==
    /\ Callable
    /\ UNCHANGED config
    /\ LET v == ConfigValidate(config)
       IN  Returns(IF v = "Ok" THEN Ok("validate", NoName)
                   ELSE Err("validate", NoName, "ConfigError", v))

\* config.save(path): the document written is the value the caller can read
\* back from the path; written says whether tokio::fs::write succeeded (its
\* error goes out as it is, in a Box<dyn Error>).
Save(written) ==
    /\ Callable
    /\ UNCHANGED config
    /\ Returns(IF written THEN OkValue("save", NoName, Serialize(config))
               ELSE Err("save", NoName, "IoError", "write"))

\* config.save_to_file(path): a write error becomes ConfigError.
SaveToFile(written) ==
    /\ Callable
    /\ UNCHANGED config
    /\ Returns(IF written THEN OkValue("save_to_file", NoName, Serialize(config))
               ELSE Err("save_to_file", NoName, "ConfigError", "write"))

\* manager.save_config(path): serde_json::to_string_pretty(&self.config), then
\* fs::write; a write error becomes ConfigError.
SaveConfig(written) ==
    /\ Callable
    /\ UNCHANGED config
    /\ Returns(IF written THEN OkValue("save_config", NoName, Serialize(config))
               ELSE Err("save_config", NoName, "ConfigError", "write"))

SaveOps == {"save", "save_to_file", "save_config"}

LoadOps == {"load", "load_from_file"}

\* The document at the path a save has just written.
Written == pc = "idle" /\ result.op \in SaveOps /\ result.kind = "Ok"

\* ProjectConfig::load(path) of the path just written: the parse error goes out
\* as it is, in a Box<dyn Error>.
Load ==
    /\ Written
    /\ UNCHANGED config
    /\ Returns(IF Parses(result.value)
               THEN OkValue("load", NoName, Deserialize(result.value))
               ELSE Err("load", NoName, "SerdeError", "parse"))

\* ProjectConfig::load_from_file(path) of the path just written: a parse error
\* becomes ConfigError.
LoadFromFile ==
    /\ Written
    /\ UNCHANGED config
    /\ Returns(IF Parses(result.value)
               THEN OkValue("load_from_file", NoName, Deserialize(result.value))
               ELSE Err("load_from_file", NoName, "ConfigError", "parse"))

\* The caller goes on with the configuration it loaded (main.rs, Import:
\* let new_config = ProjectConfig::load_from_file(&input).await?;
\* manager.update_config(new_config)).
UpdateConfigLoaded ==
    /\ pc = "idle" /\ result.op \in LoadOps /\ result.kind = "Ok"
    /\ config' = result.value
    /\ Returns(Ok("update_config", NoName))

\* ------------------------------------- a ProjectConfig written field by field
\* Every field of ProjectConfig, PluginConfig and PluginSource is pub: a caller
\* assigns them, and writes configuration files by hand.
MaxSources == 2
FieldValues == {"", "demo"}
SourceUrls == {"", "https://registry.plm.dev"}
BarePluginConfigs == {PluginConfigNew(n) : n \in PluginNames}

\* config.project_name = s.
SetProjectName(s) ==
    /\ Callable
    /\ config' = [config EXCEPT !.project_name = s]
    /\ Returns(OkValue("project_name", NoName, s))

\* config.project_root = s.
SetProjectRoot(s) ==
    /\ Callable
    /\ config' = [config EXCEPT !.project_root = s]
    /\ Returns(OkValue("project_root", NoName, s))

\* config.plugins.insert(k, p): the key is the caller's choice.
InsertPlugin(k, p) ==
    /\ Callable
    /\ config' = [config EXCEPT !.plugins =
                     [j \in DOMAIN config.plugins \cup {k} |->
                         IF j = k THEN p ELSE config.plugins[j]]]
    /\ Returns(OkValue("plugins.insert", k, p))

\* config.sources.push(PluginSource::registry(url)).
PushSource(url) ==
    /\ Callable
    /\ Len(config.sources) < MaxSources
    /\ config' = [config EXCEPT !.sources = Append(@, SourceRegistry(url))]
    /\ Returns(OkValue("sources.push", NoName, url))

\* config.sources.clear().
ClearSources ==
    /\ Callable
    /\ config' = [config EXCEPT !.sources = <<>>]
    /\ Returns(Ok("sources.clear", NoName))

\* Configuration files written by hand, after what save writes for a project
\* "demo" with plugin 1: "mismatch" holds the entry of another name under key 1,
\* "unnamed" an empty project_name, "unpinned" leaves the Option members of the
\* plugin out, "truncated" leaves the member settings of the whole out.
DocumentKinds == {"mismatch", "unnamed", "unpinned", "truncated"}

Document(kind) ==
    LET c == ConfigAddPlugin(DefaultForProject("demo", "/tmp"), PluginConfigNew(1))
        d == Serialize(c)
    IN  CASE kind = "mismatch" ->
                 [d EXCEPT !.plugins[1] = SerializePluginConfig(PluginConfigNew(2))]
          [] kind = "unnamed"  -> [d EXCEPT !.project_name = JsonString("")]
          [] kind = "unpinned" ->
                 [d EXCEPT !.plugins =
                     [k \in {1} |->
                         [name |-> JsonString(1), enabled |-> JsonBool(TRUE),
                          settings |-> NoSettings, auto_update |-> JsonBool(FALSE)]]]
          [] OTHER ->
                 [project |-> d.project, global_settings |-> d.global_settings,
                  plugins |-> d.plugins, sources |-> d.sources,
                  project_name |-> d.project_name, project_root |-> d.project_root,
                  version |-> d.version]

\* ProjectConfig::load_from_file(path) of a file written by hand.
LoadFromFileDocument(kind) ==
    /\ Callable
    /\ UNCHANGED config
    /\ Returns(IF Parses(Document(kind))
               THEN OkValue("load_from_file", NoName, Deserialize(Document(kind)))
               ELSE Err("load_from_file", NoName, "ConfigError", "parse"))

\* ------------------------------------------------------------------ Next
Next ==
    \/ \E a \in Adapters : NewAdapter(a)
    \/ \E a \in Adapters : DropHandle(a)
    \/ \E a \in Adapters : HandleOpBegin(a)
    \/ HandleOpEnd
    \/ \E n \in Names, a \in Adapters, keep \in BOOLEAN : RegisterPluginForTest(n, a, keep)
    \/ InitializeBegin
    \/ InitializeVisit
    \/ \E ok \in BOOLEAN : InitializeHookReturn(ok)
    \/ InitializeReturn
    \/ ShutdownBegin
    \/ ShutdownVisit
    \/ \E ok \in BOOLEAN : ShutdownHookReturn(ok)
    \/ ShutdownReturn
    \/ \E n \in Names : GetPlugin(n)
    \/ \E n \in Names, v \in VersionArgs, o \in OptionArgs, ok \in BOOLEAN :
          InstallPlugin(n, v, o, ok)
    \/ \E n \in Names, v \in Versions, ok \in BOOLEAN : UninstallPlugin(n, v, ok)
    \/ ListPlugins
    \/ DiscoverPlugins
    \/ ValidateAllPlugins
    \/ TakeResult

Spec == Init /\ [][Next]_vars

\* The adapter instances registered in ManagerSpec, where what an adapter
\* reports about itself decides nothing: two, to tell one from another.
ManagerAdapters == {"mock", "unnamed"}

\* The manager with its configuration, from construction to Drop, as its owner
\* and the holders of handles drive it.
ManagerNext ==
    \/ \E a \in ManagerAdapters : NewAdapter(a)
    \/ \E a \in ManagerAdapters : DropHandle(a)
    \/ \E n \in Names, a \in ManagerAdapters, keep \in BOOLEAN : RegisterPluginForTest(n, a, keep)
    \/ InitializeBegin
    \/ InitializeVisit
    \/ \E ok \in BOOLEAN : InitializeHookReturn(ok)
    \/ InitializeReturn
    \/ ShutdownBegin
    \/ ShutdownVisit
    \/ \E ok \in BOOLEAN : ShutdownHookReturn(ok)
    \/ ShutdownReturn
    \/ \E n \in Names : GetPlugin(n)
    \/ \E n \in Names, v \in VersionArgs, o \in OptionArgs, ok \in BOOLEAN :
          InstallPlugin(n, v, o, ok)
    \/ \E n \in Names, v \in Versions, ok \in BOOLEAN : UninstallPlugin(n, v, ok)
    \/ ListPlugins
    \/ DiscoverPlugins
    \/ ValidateAllPlugins
    \/ GetConfig
    \/ \E c \in Configs : UpdateConfig(c)
    \/ \E p \in PluginConfigs : AddPluginConfig(p)
    \/ \E n \in Names : RemovePluginConfig(n)
    \/ \E n \in Names : GetPluginConfig(n)
    \/ \E written \in BOOLEAN : SaveConfig(written)
    \/ DropManager
    \/ New
    \/ \E c \in Configs : FromProjectConfig(c)
    \/ TakeResult

ManagerSpec == Init /\ [][ManagerNext]_vars

\* A ProjectConfig in the hands of its owner (a caller of the library, or the
\* manager that holds it), from default_for_project on, through the methods of
\* ProjectConfig and PluginConfig and through files.
ConfigNext ==
    \/ \E n \in ProjectNames, r \in ProjectRoots : DefaultConfig(n, r)
    \/ \E p \in NewPluginConfigs : AddPlugin(p)
    \/ \E n \in PluginNames : RemovePlugin(n)
    \/ \E n \in PluginNames : EnablePlugin(n)
    \/ \E n \in PluginNames : DisablePlugin(n)
    \/ \E n \in PluginNames, a \in SettingArgs : UpdatePluginSetting(n, a[1], a[2])
    \/ \E n \in PluginNames, a \in SettingArgs : PluginSetSetting(n, a[1], a[2])
    \/ \E n \in PluginNames, k \in SettingKeys : PluginGetSetting(n, k)
    \/ \E n \in PluginNames, k \in SettingKeys : PluginRemoveSetting(n, k)
    \/ \E n \in PluginNames : PluginClearSettings(n)
    \/ \E p \in NewPluginConfigs : AddPluginConfig(p)
    \/ \E n \in PluginNames : RemovePluginConfig(n)
    \/ ValidateConfig
    \/ \E written \in BOOLEAN : Save(written)
    \/ \E written \in BOOLEAN : SaveToFile(written)
    \/ \E written \in BOOLEAN : SaveConfig(written)
    \/ Load
    \/ LoadFromFile
    \/ UpdateConfigLoaded
    \/ TakeResult

ConfigSpec == Init /\ [][ConfigNext]_vars

\* A ProjectConfig whose owner also assigns its fields and loads files written
\* by hand.
ConfigAnyNext ==
    \/ \E n \in ProjectNames, r \in ProjectRoots : DefaultConfig(n, r)
    \/ \E p \in BarePluginConfigs : AddPlugin(p)
    \/ \E s \in FieldValues : SetProjectName(s)
    \/ \E s \in FieldValues : SetProjectRoot(s)
    \/ \E k \in PluginNames, p \in BarePluginConfigs : InsertPlugin(k, p)
    \/ \E url \in SourceUrls : PushSource(url)
    \/ ClearSources
    \/ \E kind \in DocumentKinds : LoadFromFileDocument(kind)
    \/ UpdateConfigLoaded
    \/ ValidateConfig
    \/ TakeResult

ConfigAnySpec == Init /\ [][ConfigAnyNext]_vars

\* The manager in the hands of a caller that shuts it down and uses it again.
ReuseNext ==
    \/ \E a \in ManagerAdapters : NewAdapter(a)
    \/ \E a \in ManagerAdapters : DropHandle(a)
    \/ \E n \in Names, a \in ManagerAdapters, keep \in BOOLEAN : RegisterPluginForTest(n, a, keep)
    \/ InitializeBegin
    \/ InitializeVisit
    \/ \E ok \in BOOLEAN : InitializeHookReturn(ok)
    \/ InitializeReturn
    \/ ShutdownBegin
    \/ ShutdownVisit
    \/ \E ok \in BOOLEAN : ShutdownHookReturn(ok)
    \/ ShutdownReturn
    \/ \E n \in Names : GetPlugin(n)
    \/ \E n \in Names, v \in VersionArgs, o \in OptionArgs, ok \in BOOLEAN :
          InstallPlugin(n, v, o, ok)
    \/ \E n \in Names, v \in Versions, ok \in BOOLEAN : UninstallPlugin(n, v, ok)
    \/ TakeResultSince

ReuseSpec == Init /\ [][ReuseNext]_vars

\* =================================================================== claims
\* A manager operation op has just returned; visits, iter, pre, calls and result
\* describe that call.
Returned(op) == pc = "idle" /\ result.op = op

\* The entries of the pass on which the hook was invoked.
Hooked == {i \in DOMAIN visits : visits[i].outcome # "refused"}

\* Number of times the pass invoked its hook on adapter a.
Invocations(a) == Cardinality({i \in Hooked : visits[i].adapter = a})

\* The keys the loop had not reached when the pass ended.
Unvisited == {iter[i] : i \in DOMAIN iter}

\* Entries of the registry the last operation started from whose metadata has
\* a non-empty name and a non-empty version.
CompleteEntries ==
    {n \in DOMAIN pre : Metadata(pre[n]).name # "" /\ Metadata(pre[n]).version # ""}

\* C1: initialize() is fail-fast. When it returns, it returned Ok exactly when
\* every entry it met gave exclusive access and a successful hook; otherwise it
\* returned a PluginError naming the first entry that did not (which is the last
\* entry it visited), and it invoked initialize() on no adapter of an entry it
\* had not reached.
InitializeFailFast ==
    Returned("initialize") =>
        LET failing == {i \in DOMAIN visits : visits[i].outcome # "ok"}
        IN  /\ (failing = {}) <=> (result.kind = "Ok")
            /\ result.kind = "Ok" => Unvisited = {}
            /\ failing # {} =>
                 /\ failing = {Len(visits)}
                 /\ result.kind = "PluginError"
                 /\ result.name = visits[Len(visits)].name
                 /\ result.cause = IF visits[Len(visits)].outcome = "refused"
                                   THEN "no_mut_ref" ELSE "init_failed"
                 /\ \A n \in Unvisited :
                      /\ \A i \in DOMAIN visits : visits[i].name # n
                      /\ Invocations(pre[n]) = 0

\* C1 witness: initialize() aborted on a failed hook with an entry still unvisited.
InitializeFailFastWitness ==
    /\ Returned("initialize")
    /\ result.cause = "init_failed"
    /\ Unvisited # {}

\* C2 (as claimed): when some adapter's shutdown() returned an error, shutdown()
\* still invoked shutdown() exactly once on every other registered adapter and
\* returned Ok.
ShutdownBestEffortClaim ==
    (Returned("shutdown") /\ \E i \in DOMAIN visits : visits[i].outcome = "err") =>
        /\ result.kind = "Ok"
        /\ \A n \in DOMAIN pre :
             (\E i \in DOMAIN visits : visits[i].outcome = "err" /\ visits[i].adapter # pre[n])
                 => Invocations(pre[n]) = 1

\* C3 (as claimed): every shutdown() leaves the registry empty when it returns.
ShutdownClearsRegistryClaim ==
    Returned("shutdown") => plugins = EmptyMap

\* C4 (as claimed): when shutdown() meets an adapter X to which an outside handle
\* is held, it skips X only: X.shutdown() is not invoked, the call does not abort
\* (it returns Ok after the whole loop), and shutdown() is invoked on every other
\* registered adapter that is referenced by its registry entry alone.
ShutdownSkipsHeldClaim ==
    Returned("shutdown") =>
        \A i \in DOMAIN visits :
            visits[i].outside > 0 =>
                /\ visits[i].outcome = "refused"
                /\ result.kind = "Ok"
                /\ Unvisited = {}
                /\ \A n \in DOMAIN pre :
                     (pre[n] # visits[i].adapter /\ StrongCount(pre[n]) = 1
                        /\ \A j \in DOMAIN visits : visits[j].name = n => visits[j].refs = 1)
                         => Invocations(pre[n]) = 1

\* C5: when initialize() reaches an entry N to whose adapter an outside handle is
\* held, the call ends there with a PluginError naming N, N's initialize() is not
\* invoked (on that visit or earlier in the pass), and the adapter's status is
\* what it was.
InitializeRefusesHeld ==
    (pc = "initialize" \/ Returned("initialize")) =>
        \A i \in DOMAIN visits :
            visits[i].outside > 0 =>
                /\ visits[i].outcome = "refused"
                /\ i = Len(visits)
                /\ Returned("initialize")
                /\ result.kind = "PluginError"
                /\ result.cause = "no_mut_ref"
                /\ result.name = visits[i].name
                /\ Invocations(visits[i].adapter) = 0
                /\ status[visits[i].adapter] = visits[i].before

\* C5 witness: initialize() was refused an adapter that an earlier initialize()
\* had made Active and to which a caller holds a handle.
InitializeRefusesHeldWitness ==
    /\ Returned("initialize")
    /\ visits # <<>>
    /\ visits[Len(visits)].outside > 0
    /\ visits[Len(visits)].before = "Active"
    /\ held[visits[Len(visits)].adapter] > 0

\* C6: while an adapter's initialize() or shutdown() runs, the registry entry
\* being visited is the only reference to the adapter: no handle to it is held
\* outside the manager and no operation through a handle is in flight on it.
HookRunsExclusively ==
    running # NoAdapter =>
        /\ pc \in {"initialize", "shutdown"}
        /\ cur \in DOMAIN plugins /\ plugins[cur] = running
        /\ held[running] = 0
        /\ using # running
        /\ StrongCount(running) = 1

\* C6 witness: a hook runs while a caller is in the middle of an operation
\* through its handle to another adapter.
HookRunsExclusivelyWitness ==
    /\ running # NoAdapter
    /\ using # NoAdapter
    /\ held[using] > 0

\* C7: when initialize() aborts, nothing is rolled back: the pass invoked no
\* shutdown(), every adapter whose initialize() succeeded earlier in the pass is
\* Active, and the registry is the one the call started from.
InitializeNoRollback ==
    (Returned("initialize") /\ result.kind # "Ok") =>
        /\ plugins = pre
        /\ \A i \in DOMAIN visits :
             /\ visits[i].hook = "initialize"
             /\ visits[i].outcome = "ok" => status[visits[i].adapter] = "Active"

\* C7 witness: initialize() aborted after an earlier adapter of the pass, which
\* was Inactive before, had been initialized.
InitializeNoRollbackWitness ==
    /\ Returned("initialize")
    /\ result.kind = "PluginError"
    /\ Len(visits) = 2
    /\ visits[1].outcome = "ok"
    /\ visits[1].before = "Inactive"

\* C8: get_plugin, install_plugin and uninstall_plugin of a name that is not a
\* key of the registry fail with NotFound carrying that name, invoke no adapter
\* operation and leave the registry as it was.
MissingNameNotFound ==
    (pc = "idle" /\ result.op \in {"get_plugin", "install_plugin", "uninstall_plugin"}
        /\ result.name \notin DOMAIN pre) =>
        /\ result.kind = "NotFound"
        /\ result.cause = result.name
        /\ calls = {}
        /\ plugins = pre

\* C8 witness: install_plugin of a missing name on a non-empty registry.
MissingNameNotFoundWitness ==
    /\ Returned("install_plugin")
    /\ result.kind = "NotFound"
    /\ pre # EmptyMap
    /\ result.name \notin DOMAIN pre

\* The adapters of the pass were healthy and free of outside handles: no hook
\* returned an error, no outside handle was held to an adapter when its entry was
\* visited, and none is held to a registered adapter now.
HealthyAndUnheld ==
    /\ \A i \in DOMAIN visits : visits[i].outcome # "err" /\ visits[i].outside = 0
    /\ \A n \in DOMAIN pre : held[pre[n]] = 0

\* C9 (as claimed): for healthy adapters to which no outside handle is held,
\* initialize() returns Ok, and the shutdown() that follows it immediately
\* returns Ok and leaves the registry empty.
InitThenShutdownClaim ==
    /\ (Returned("initialize") /\ HealthyAndUnheld) => result.kind = "Ok"
    /\ (Returned("shutdown") /\ afterInit /\ HealthyAndUnheld) =>
           (result.kind = "Ok" /\ plugins = EmptyMap)

\* C9 (amended): the same, for adapters that are each registered under one name
\* only, so that the registry entry is the single reference to the adapter; then
\* list_plugins has no name to return and discover_plugins returns 0.
InitThenShutdown ==
    LET single == \A i \in DOMAIN visits : visits[i].refs = 1
    IN  /\ (Returned("initialize") /\ HealthyAndUnheld /\ single) =>
               (result.kind = "Ok" /\ Unvisited = {})
        /\ (Returned("shutdown") /\ afterInit /\ HealthyAndUnheld /\ single) =>
               /\ result.kind = "Ok"
               /\ plugins = EmptyMap
               /\ Orders(DOMAIN plugins) = {<<>>}
               /\ Cardinality(DOMAIN plugins) = 0
               /\ \A n \in DOMAIN pre : Invocations(pre[n]) = 1

\* C9 witness: a shutdown() right after a successful initialize() returned Ok
\* having shut two healthy adapters down.
InitThenShutdownWitness ==
    /\ Returned("shutdown")
    /\ afterInit
    /\ result.kind = "Ok"
    /\ Len(visits) = 2
    /\ \A i \in DOMAIN visits : visits[i].outcome = "ok" /\ visits[i].before = "Active"

\* C10: validate_all_plugins() counts as valid exactly the entries whose adapter
\* reports a non-empty name and a non-empty version, whatever the key; valid +
\* invalid is the number of entries; there is one error string per invalid entry,
\* naming its key; a registry of complete adapters gives (k, 0, no errors).
ValidateSummary ==
    Returned("validate_all_plugins") =>
        LET sum == result.value
            invalid == DOMAIN pre \ CompleteEntries
        IN  /\ result.kind = "Ok"
            /\ sum.valid_plugins = Cardinality(CompleteEntries)
            /\ sum.invalid_plugins = Cardinality(invalid)
            /\ sum.valid_plugins + sum.invalid_plugins = Cardinality(DOMAIN pre)
            /\ Len(sum.errors) = sum.invalid_plugins
            /\ {sum.errors[i] : i \in DOMAIN sum.errors} = {<<"incomplete", n>> : n \in invalid}
            /\ invalid = {} =>
                 /\ sum.valid_plugins = Cardinality(DOMAIN pre)
                 /\ sum.invalid_plugins = 0
                 /\ sum.errors = <<>>

\* C10 witness: a validation that found one complete and one incomplete adapter.
ValidateSummaryWitness ==
    /\ Returned("validate_all_plugins")
    /\ result.value.valid_plugins = 1
    /\ result.value.invalid_plugins = 1

\* The operations that take &self and only read the registry.
ReadOnlyOps == {"get_plugin", "list_plugins", "validate_all_plugins", "discover_plugins"}

\* C11: get_plugin, list_plugins, validate_all_plugins and discover_plugins
\* change nothing: the step that makes one of them return leaves the registry
\* (keys and the adapter under each key), every adapter's status and the held
\* ProjectConfig as they were, and invokes no initialize(), shutdown(),
\* install() or uninstall() on any adapter.
ReadOnlyFrame ==
    [][(result = NoResult /\ result'.op \in ReadOnlyOps) =>
          /\ plugins' = plugins
          /\ status' = status
          /\ config' = config
          /\ calls' = {}
          /\ visits' = <<>>
          /\ running' = NoAdapter
          /\ pc' = "idle"]_vars

\* C11 witness: get_plugin returned a handle from a manager that holds a
\* registry of two entries, an Active adapter and a declared plugin.
ReadOnlyFrameWitness ==
    /\ Returned("get_plugin")
    /\ result.kind = "Ok"
    /\ Cardinality(DOMAIN plugins) = 2
    /\ \E n \in DOMAIN plugins : status[plugins[n]] = "Active"
    /\ config.plugins # NoPluginConfigs

\* C12: registration is last-write-wins per name. Once register(N, B) has
\* returned, the lookup get_plugin(N) makes finds B (not the adapter N named
\* before), N occurs exactly once in every listing of the keys, a name that was
\* already registered leaves the number of entries as it was, and every other
\* name keeps its adapter.
RegisterLastWriteWins ==
    Returned("register") =>
        LET n == result.name
            b == result.value
        IN  /\ Lookup(plugins, n).found
            /\ Lookup(plugins, n).adapter = b
            /\ \A o \in Orders(DOMAIN plugins) :
                   Cardinality({i \in DOMAIN o : o[i] = n}) = 1
            /\ n \in DOMAIN pre => Cardinality(DOMAIN plugins) = Cardinality(DOMAIN pre)
            /\ DOMAIN plugins = DOMAIN pre \cup {n}
            /\ \A m \in DOMAIN pre \ {n} : plugins[m] = pre[m]

\* C12 witness: a second registration under a name replaced a different adapter
\* while another name was registered too.
RegisterLastWriteWinsWitness ==
    /\ Returned("register")
    /\ result.name \in DOMAIN pre
    /\ pre[result.name] # result.value
    /\ Cardinality(DOMAIN pre) = 2

\* C13: register_plugin_for_test returns Ok in whatever state the manager is
\* and invokes no lifecycle hook: the step that registers adapter B under N
\* starts no initialize() or shutdown(), records no adapter operation, and
\* leaves the status of B, of the adapter N named before, and of every other
\* adapter that is still referenced, as it was.
RegisterInvokesNoHook ==
    [][(result = NoResult /\ result'.op = "register") =>
          /\ result'.kind = "Ok"
          /\ visits' = <<>>
          /\ calls' = {}
          /\ running' = NoAdapter
          /\ pc' = "idle"
          /\ status'[result'.value] = status[result'.value]
          /\ \A a \in Adapters : Live(plugins', held', a) => status'[a] = status[a]]_vars

\* C13 witness: after an initialize(), an Inactive adapter was registered in
\* the place of an Active one to which a handle is still held; the new one is
\* still Inactive and the replaced one still Active.
RegisterInvokesNoHookWitness ==
    /\ Returned("register")
    /\ result.name \in DOMAIN pre
    /\ pre[result.name] # result.value
    /\ status[pre[result.name]] = "Active"
    /\ held[pre[result.name]] > 0
    /\ status[result.value] = "Inactive"

\* C14: for a registered name N, install_plugin(N, version, options) invokes
\* install once, on the adapter registered under N and no other, with the given
\* version ("latest" when none is given) and the given options;
\* uninstall_plugin(N, v) invokes uninstall(v) once on that adapter; and the
\* manager returns what the adapter returned: its path on success, its error
\* (kind and message) on failure.
DispatchToAdapter ==
    [][/\ \A n \in Names, ver \in VersionArgs, o \in OptionArgs, ok \in BOOLEAN :
            (InstallPlugin(n, ver, o, ok) /\ n \in DOMAIN plugins) =>
                LET v == IF ver = <<>> THEN "latest" ELSE ver[1]
                IN  /\ calls' = {[adapter |-> plugins[n], op |-> "install",
                                  version |-> v, options |-> o]}
                    /\ result'.name = n
                    /\ ok => result'.kind = "Ok"
                             /\ result'.value = <<"/tmp/test", Metadata(plugins[n]).name, v>>
                    /\ ~ok => result'.kind = "InstallationError" /\ result'.cause = v
       /\ \A n \in Names, v \in Versions, ok \in BOOLEAN :
            (UninstallPlugin(n, v, ok) /\ n \in DOMAIN plugins) =>
                /\ calls' = {[adapter |-> plugins[n], op |-> "uninstall",
                              version |-> v, options |-> "none"]}
                /\ result'.name = n
                /\ ok => result'.kind = "Ok"
                /\ ~ok => result'.kind = "PluginError" /\ result'.cause = v]_vars

\* C14 witness: install_plugin without a version reached one of two registered
\* adapters with "latest" and returned that adapter's error.
DispatchToAdapterWitness ==
    /\ Returned("install_plugin")
    /\ result.kind = "InstallationError"
    /\ Cardinality({pre[n] : n \in DOMAIN pre}) = 2
    /\ \E c \in calls : c.version = "latest" /\ c.adapter = pre[result.name]

\* C15: discarding the manager never fails and shuts nothing down. The step
\* that drops it emits the warning (with the number of entries) exactly when
\* the registry is not empty, starts no shutdown() and records no adapter
\* operation, and every adapter that survives the manager (a handle to it is
\* held outside) has the status it had.
DropWarnsOnly ==
    [][(pc # "dropped" /\ pc' = "dropped") =>
          /\ result'.op = "drop"
          /\ result'.kind = "Ok"
          /\ plugins # EmptyMap =>
                 result'.value = <<"warning", Cardinality(DOMAIN plugins)>>
          /\ plugins = EmptyMap => result'.value = <<>>
          /\ visits' = <<>>
          /\ calls' = {}
          /\ running' = NoAdapter
          /\ held' = held
          /\ \A a \in Adapters : held[a] > 0 => status'[a] = status[a]]_vars

\* C15 witness: a manager was dropped, with the warning, while its registry
\* held an Active adapter that outlives it and is still Active.
DropWarnsOnlyWitness ==
    /\ pc = "dropped"
    /\ result.op = "drop"
    /\ result.value # <<>>
    /\ \E n \in DOMAIN pre : held[pre[n]] > 0 /\ status[pre[n]] = "Active"

\* C16: new() and from_project_config(config) return Ok with an empty
\* registry, whatever plugins the configuration declares; the manager holds
\* default_for_project("default", ".") after new() and the given configuration
\* after from_project_config; and as long as nothing is registered, get_plugin
\* and install_plugin fail with NotFound for every name.
ConstructedEmpty ==
    /\ (Returned("new") \/ Returned("from_project_config")) =>
           /\ result.kind = "Ok"
           /\ plugins = EmptyMap
           /\ \A n \in Names : ~Lookup(plugins, n).found
    /\ Returned("new") => config = DefaultForProject("default", ".")
    /\ Returned("from_project_config") => config = result.value
    /\ (pc = "idle" /\ result.op \in {"get_plugin", "install_plugin"} /\ pre = EmptyMap) =>
           /\ result.kind = "NotFound"
           /\ result.cause = result.name
           /\ calls = {}

\* C16 witness: a manager was built from a configuration that declares an
\* enabled plugin.
ConstructedEmptyWitness ==
    /\ Returned("from_project_config")
    /\ \E k \in DOMAIN config.plugins : config.plugins[k].enabled

\* The accessors of the held configuration.
ConfigOps == {"get_config", "update_config", "add_plugin_config",
              "remove_plugin_config", "get_plugin_config"}

\* C17: get_config, update_config, add_plugin_config, remove_plugin_config and
\* get_plugin_config never touch the registry: the step that makes one of them
\* return leaves the registered names, the adapter under each name and every
\* adapter's status as they were, and invokes no adapter operation. Adding a
\* PluginConfig for N does not register N; removing it does not unregister N.
ConfigOpsFrame ==
    [][(result = NoResult /\ result'.op \in ConfigOps) =>
          /\ plugins' = plugins
          /\ status' = status
          /\ held' = held
          /\ calls' = {}
          /\ visits' = <<>>
          /\ running' = NoAdapter
          /\ pc' = "idle"]_vars

\* C17 witness: a PluginConfig was added for a name that is not registered,
\* while an Active adapter is registered under another name; the name is
\* declared now and still not registered.
ConfigOpsFrameWitness ==
    /\ Returned("add_plugin_config")
    /\ result.name \in DOMAIN config.plugins
    /\ result.name \notin DOMAIN plugins
    /\ \E n \in DOMAIN plugins : status[plugins[n]] = "Active"

\* C18: discover_plugins() returns Ok with the number of registry entries: the
\* number of names get_plugin would find, which is 0 for an empty registry (a
\* fresh manager, or one whose shutdown() completed) and k when k distinct names
\* are registered; registering under a name that is already registered leaves
\* that number as it was.
DiscoverCountsEntries ==
    /\ Returned("discover_plugins") =>
           /\ result.kind = "Ok"
           /\ result.value = Cardinality({n \in Names : Lookup(plugins, n).found})
           /\ plugins = EmptyMap => result.value = 0
    /\ (Returned("shutdown") /\ result.kind = "Ok") =>
           Cardinality(DOMAIN plugins) = 0
    /\ (Returned("register") /\ result.name \in DOMAIN pre) =>
           Cardinality(DOMAIN plugins) = Cardinality(DOMAIN pre)

\* C18 witness: discover_plugins returned 2 for two names registered with the
\* same adapter.
DiscoverCountsEntriesWitness ==
    /\ Returned("discover_plugins")
    /\ result.value = 2
    /\ Cardinality({plugins[n] : n \in DOMAIN plugins}) = 1

\* C19: list_plugins() returns the registered names, each once, in some order:
\* a name is in the list exactly when get_plugin of that name finds an adapter;
\* and an initialize() that returned Ok has neither added nor removed a name.
ListIsRegisteredNames ==
    /\ Returned("list_plugins") =>
           LET l == result.value
           IN  /\ result.kind = "Ok"
               /\ \A n \in Names :
                      (\E i \in DOMAIN l : l[i] = n) <=> Lookup(plugins, n).found
               /\ \A i, j \in DOMAIN l : i # j => l[i] # l[j]
               /\ Len(l) = Cardinality(DOMAIN plugins)
    /\ (Returned("initialize") /\ result.kind = "Ok") => DOMAIN plugins = DOMAIN pre

\* C19 witness: list_plugins returned two names, not in the order of the keys,
\* one of them naming an adapter that is not Active.
ListIsRegisteredNamesWitness ==
    /\ Returned("list_plugins")
    /\ Len(result.value) = 2
    /\ result.value[1] > result.value[2]
    /\ \E n \in DOMAIN plugins : status[plugins[n]] = "Inactive"

\* The operations between which a name keeps its adapter.
StableOps == ReadOnlyOps \cup {"install_plugin", "uninstall_plugin"} \cup ConfigOps

\* C20: get_plugin(N) of a registered name returns a handle to the adapter
\* instance registered under N, whose metadata().name is therefore the same on
\* every call: registration puts the given instance under N, none of get_plugin,
\* list_plugins, install_plugin, uninstall_plugin, validate_all_plugins,
\* discover_plugins or the configuration accessors changes the instance under
\* any name, and get_plugin returns exactly the instance found under N.
GetPluginStable ==
    /\ Returned("register") => plugins[result.name] = result.value
    /\ (pc = "idle" /\ result.op \in StableOps) => plugins = pre
    /\ (Returned("get_plugin") /\ result.name \in DOMAIN pre) =>
           /\ result.kind = "Ok"
           /\ result.value = plugins[result.name]
           /\ Metadata(result.value).name = Metadata(plugins[result.name]).name

\* C20 witness: with two different adapters registered and a plugin declared
\* in the configuration, get_plugin returned the handle of the MockPlugin.
GetPluginStableWitness ==
    /\ Returned("get_plugin")
    /\ result.kind = "Ok"
    /\ Metadata(result.value).name = "test-go"
    /\ Cardinality({plugins[n] : n \in DOMAIN plugins}) = 2
    /\ config.plugins # NoPluginConfigs

\* The kinds of value found among the settings of configuration c.
SettingKinds(c) ==
    {c.plugins[n].settings[k][1] : <<n, k>> \in
        {<<n, k>> \in PluginNames \X SettingKeys :
            n \in DOMAIN c.plugins /\ k \in DOMAIN c.plugins[n].settings}}

\* Configuration l has the project name, the project root and the plugin
\* entries (keys, enabled flags, version pins, settings) of configuration c.
SameProjectAndPlugins(l, c) ==
    /\ l.project_name = c.project_name
    /\ l.project_root = c.project_root
    /\ l.project.name = c.project.name
    /\ l.project.root_path = c.project.root_path
    /\ DOMAIN l.plugins = DOMAIN c.plugins
    /\ \A k \in DOMAIN c.plugins :
           /\ l.plugins[k].enabled = c.plugins[k].enabled
           /\ l.plugins[k].version = c.plugins[k].version
           /\ l.plugins[k].settings = c.plugins[k].settings

WellFormed(c) ==
    /\ c.project_name # ""
    /\ c.project_root # ""
    /\ \A k \in DOMAIN c.plugins : c.plugins[k].name = k
    /\ \A i \in DOMAIN c.sources : c.sources[i].url # ""

\* C22: validate() returns Ok exactly when the project name and the project
\* root are not empty, every plugin entry has the name of its key and every
\* source has a URL; it returns ConfigError in every other case; it leaves the
\* configuration as it was. This holds whatever way the configuration was
\* built: through the methods, by assigning fields, or from a file.
ValidateExact ==
    [][(result.op # "validate" /\ result'.op = "validate") =>
          /\ config' = config
          /\ result'.kind = "Ok" <=> WellFormed(config)
          /\ result'.kind \in {"Ok", "ConfigError"}]_vars

\* validate() has returned ConfigError on a configuration whose project name
\* and root are set but which holds a plugin entry under another name's key.
ValidateExactWitness ==
    /\ Returned("validate") /\ result.kind = "ConfigError"
    /\ config.project_name # "" /\ config.project_root # ""
    /\ \E k \in DOMAIN config.plugins : config.plugins[k].name # k

\* A call op on the PluginConfig of a plugin returns in this step.
SettingsStep(op) == result = NoResult /\ result'.op = op

\* C23: the settings of a PluginConfig are a map with last-write-wins and
\* idempotent writes. After set_setting(k, v) get_setting(k) is Some(v) whatever
\* was stored, every other key reads as before, and a second set_setting(k, v)
\* changes nothing (k is there once); get_setting(k) is None after
\* remove_setting(k), for every key after clear_settings(), and for every key
\* of a PluginConfig just made by new.
SettingsLastWriteWins ==
    [][LET n == result'.name
           k == result'.value[1]
       IN  /\ SettingsStep("set_setting") =>
                 /\ GetSetting(config'.plugins[n], k) = <<result'.value[2]>>
                 /\ \A j \in SettingKeys \ {k} :
                        GetSetting(config'.plugins[n], j) = GetSetting(config.plugins[n], j)
                 /\ SetSetting(config'.plugins[n], k, result'.value[2]) = config'.plugins[n]
                 /\ DOMAIN config'.plugins[n].settings =
                        DOMAIN config.plugins[n].settings \cup {k}
           /\ SettingsStep("remove_setting") =>
                 /\ GetSetting(config'.plugins[n], k) = <<>>
                 /\ \A j \in SettingKeys \ {k} :
                        GetSetting(config'.plugins[n], j) = GetSetting(config.plugins[n], j)
           /\ SettingsStep("clear_settings") =>
                 \A j \in SettingKeys : GetSetting(config'.plugins[n], j) = <<>>
           /\ SettingsStep("add_plugin") =>
                 \A j \in SettingKeys : GetSetting(config'.plugins[n], j) = <<>>
      ]_vars

\* set_setting("timeout", "test") has returned on a PluginConfig that holds
\* "debug" as well: "timeout" reads "test" and "debug" reads true.
SettingsLastWriteWinsWitness ==
    /\ Returned("set_setting")
    /\ result.value = <<"timeout", JsonString("test")>>
    /\ GetSetting(config.plugins[result.name], "timeout") = <<JsonString("test")>>
    /\ GetSetting(config.plugins[result.name], "debug") = <<JsonBool(TRUE)>>

\* C24: default_for_project(n, r) gives a configuration with project_name = n,
\* project_root = r, no plugin entry, and one source, of type registry.
DefaultForProjectShape ==
    Returned("default_for_project") =>
        /\ config.project_name = result.value[1]
        /\ config.project_root = result.value[2]
        /\ DOMAIN config.plugins = {}
        /\ Len(config.sources) = 1
        /\ config.sources[1].source_type = "Registry"
        /\ SerializeSource(config.sources[1]).type = JsonString("registry")

\* default_for_project("demo", "/tmp") has returned.
DefaultForProjectShapeWitness ==
    /\ Returned("default_for_project")
    /\ result.value = <<"demo", "/tmp">>
    /\ config.project_name = "demo" /\ config.project_root = "/tmp"

\* The operations of ProjectConfig that change one entry found by name.
EntryOps == {"enable_plugin", "disable_plugin", "update_plugin_setting"}

\* C25: enable_plugin, disable_plugin and update_plugin_setting on a name that
\* has no entry return an error and leave the configuration as it was, with no
\* entry made; on a name that has one they succeed and change only its enabled
\* flag (to true, to false) or only the setting key given: the entry's name,
\* version, source and other settings, every other entry and the rest of the
\* configuration stay as they were.
EntryOpsTouchOneEntry ==
    [][(result = NoResult /\ result'.op \in EntryOps) =>
          LET n == result'.name
              old == config.plugins[n]
              new == config'.plugins[n]
          IN  IF n \notin DOMAIN config.plugins
              THEN result'.kind # "Ok" /\ config' = config
              ELSE /\ result'.kind = "Ok"
                   /\ [config' EXCEPT !.plugins = config.plugins] = config
                   /\ DOMAIN config'.plugins = DOMAIN config.plugins
                   /\ \A m \in DOMAIN config.plugins \ {n} :
                          config'.plugins[m] = config.plugins[m]
                   /\ result'.op = "enable_plugin" =>
                          new.enabled /\ [new EXCEPT !.enabled = old.enabled] = old
                   /\ result'.op = "disable_plugin" =>
                          ~new.enabled /\ [new EXCEPT !.enabled = old.enabled] = old
                   /\ result'.op = "update_plugin_setting" =>
                          /\ [new EXCEPT !.settings = old.settings] = old
                          /\ DOMAIN new.settings = DOMAIN old.settings \cup {result'.value[1]}
                          /\ new.settings[result'.value[1]] = result'.value[2]
                          /\ \A j \in DOMAIN old.settings \ {result'.value[1]} :
                                 new.settings[j] = old.settings[j]
      ]_vars

\* enable_plugin has returned an error for a name that has no entry, in a
\* configuration that holds an entry for another name.
EntryOpsTouchOneEntryWitness ==
    /\ Returned("enable_plugin") /\ result.kind # "Ok"
    /\ result.name \notin DOMAIN config.plugins
    /\ config.plugins # NoPluginConfigs

\* C26: the legacy fields mirror the structured ones in every configuration
\* reached from default_for_project by add_plugin, remove_plugin, enable_plugin,
\* disable_plugin, update_plugin_setting, the manager's add_plugin_config and
\* remove_plugin_config, and a save followed by a load: project_name is
\* project.name, project_root is project.root_path, version is project.version
\* and settings is global_settings.
LegacyMirrorsStructured ==
    /\ config.project_name = config.project.name
    /\ config.project_root = config.project.root_path
    /\ config.version = config.project.version
    /\ config.settings = config.global_settings

\* The configuration in use came back from a file, it is project "demo" at
\* "/tmp" and it holds an enabled plugin with a setting.
LegacyMirrorsStructuredWitness ==
    /\ Returned("update_config")
    /\ config.project.name = "demo" /\ config.project_root = "/tmp"
    /\ \E n \in DOMAIN config.plugins :
           config.plugins[n].enabled /\ config.plugins[n].settings # NoSettings

\* Every entry of the plugins map of configuration c is held under its name.
KeysAreNames(c) == \A k \in DOMAIN c.plugins : c.plugins[k].name = k

\* C27: from default_for_project on, add_plugin, remove_plugin, enable_plugin,
\* disable_plugin, update_plugin_setting and the manager's add_plugin_config and
\* remove_plugin_config keep every plugins entry under the key that is its
\* name, so validate() reports no name mismatch; add_plugin of a PluginConfig
\* whose name is a key already puts it in the place of that entry: the keys
\* are the same and the other entries stay.
NameIsKeyPreserved ==
    [][KeysAreNames(config) =>
          /\ KeysAreNames(config')
          /\ (result = NoResult /\ result'.op = "validate") =>
                 result'.cause # "Plugin name mismatch"
          /\ (result = NoResult /\ result'.op \in {"add_plugin", "add_plugin_config"}) =>
                 /\ DOMAIN config'.plugins = DOMAIN config.plugins \cup {result'.name}
                 /\ config'.plugins[result'.name].name = result'.name
                 /\ result'.op = "add_plugin" =>
                        config'.plugins[result'.name] = result'.value
                 /\ \A m \in DOMAIN config.plugins \ {result'.name} :
                        config'.plugins[m] = config.plugins[m]
      ]_vars

\* add_plugin has returned and the configuration holds the PluginConfig given,
\* pinned and disabled, next to an enabled entry of the other name.
NameIsKeyPreservedWitness ==
    /\ Returned("add_plugin")
    /\ DOMAIN config.plugins = PluginNames
    /\ config.plugins[result.name] = result.value
    /\ result.value.version = <<PinnedVersion>> /\ ~result.value.enabled
    /\ \E m \in PluginNames \ {result.name} : config.plugins[m].enabled

\* The registry and lifecycle operations of the manager.
RegistryOps == {"register", "initialize", "shutdown", "install_plugin",
                "uninstall_plugin", "validate_all_plugins", "discover_plugins",
                "save_config"}

\* C28: no registry or lifecycle operation modifies the held ProjectConfig.
\* Every step of register_plugin_for_test, initialize, shutdown, install_plugin,
\* uninstall_plugin, validate_all_plugins, discover_plugins and save_config,
\* whether the operation succeeds or fails, leaves the configuration get_config()
\* returns as it was: a successful install_plugin(N, v) declares neither N nor v
\* in it, and shutdown() clears the registry, not the configuration's plugins.
RegistryOpsKeepConfig ==
    [][(\/ pc \in {"initialize", "shutdown"}
        \/ pc' \in {"initialize", "shutdown"}
        \/ result = NoResult /\ result'.op \in RegistryOps) =>
          config' = config]_vars

\* shutdown() has returned Ok and cleared a registry that held the plugin the
\* configuration declares: the registry is empty, the declaration is there.
RegistryOpsKeepConfigWitness ==
    /\ Returned("shutdown") /\ result.kind = "Ok"
    /\ plugins = EmptyMap
    /\ \E n \in DOMAIN pre : n \in DOMAIN config.plugins

\* C29: the manager keeps no lifecycle state and gates nothing by phase. An
\* initialize() that returns Ok has invoked initialize() exactly once on the
\* adapter of every registered name, whatever the adapter's status was and
\* whatever was called before (adapters that are Active are initialized again);
\* install_plugin and uninstall_plugin of a registered name are dispatched to
\* its adapter whatever its status, also when nothing was ever initialized.
NoLifecycleGate ==
    /\ (Returned("initialize") /\ result.kind = "Ok") =>
           \A n \in DOMAIN pre :
               /\ Cardinality({i \in Hooked : visits[i].name = n}) = 1
               /\ Invocations(pre[n]) = 1
    /\ \A op \in {"install_plugin", "uninstall_plugin"} :
           (Returned(op) /\ result.name \in DOMAIN pre) =>
               /\ result.kind # "NotFound"
               /\ \E c \in calls : c.adapter = pre[result.name]

\* An initialize() called right after a successful initialize() has returned
\* Ok: the two adapters it met were Active already and each was initialized
\* once more.
NoLifecycleGateWitness ==
    /\ Returned("initialize") /\ result.kind = "Ok" /\ afterInit
    /\ Cardinality(DOMAIN pre) = 2
    /\ \A n \in DOMAIN pre :
           \E i \in Hooked : visits[i].name = n /\ visits[i].before = "Active"

\* The operations that look a name up in the registry.
LookupOps == {"get_plugin", "install_plugin", "uninstall_plugin"}

\* A shutdown() has returned Ok, and op has just returned after it.
ReturnedSinceShutdown(op) == Returned(op) /\ since # <<>>

\* C30 (as claimed): after a shutdown() that returned Ok, get_plugin,
\* install_plugin and uninstall_plugin fail with NotFound for every name that
\* has not been registered since, and the manager is usable again: once
\* adapters have been registered, initialize() succeeds and the registry holds
\* exactly what was registered since the shutdown.
ReuseAfterShutdownClaim ==
    /\ \A op \in LookupOps :
           (ReturnedSinceShutdown(op) /\ result.name \notin DOMAIN since[1]) =>
               result.kind = "NotFound"
    /\ (ReturnedSinceShutdown("initialize") /\ since[1] # EmptyMap) =>
           (result.kind = "Ok" /\ plugins = since[1])

\* C30 (amended): the same, with initialize() succeeding when the adapters
\* registered since the shutdown are healthy, each under one name only, and no
\* handle to them is held outside the manager; whatever initialize() returns,
\* the names that can be looked up are exactly those registered since, each
\* giving the adapter registered under it.
ReuseAfterShutdown ==
    /\ \A op \in LookupOps :
           (ReturnedSinceShutdown(op) /\ result.name \notin DOMAIN since[1]) =>
               result.kind = "NotFound"
    /\ \A op \in LookupOps :
           (ReturnedSinceShutdown(op) /\ result.name \in DOMAIN since[1]) =>
               result.kind # "NotFound"
    /\ (ReturnedSinceShutdown("get_plugin") /\ result.name \in DOMAIN since[1]) =>
           result.value = since[1][result.name]
    /\ (Callable /\ since # <<>>) => plugins = since[1]
    /\ ReturnedSinceShutdown("initialize") =>
           /\ plugins = since[1]
           /\ (/\ HealthyAndUnheld
               /\ \A i \in DOMAIN visits : visits[i].refs = 1) =>
                  (result.kind = "Ok" /\ Unvisited = {})

\* C30 witness: after a shutdown() that returned Ok one adapter was registered
\* and initialize() has returned Ok: the registry holds that adapter alone, and
\* it is Active.
ReuseAfterShutdownWitness ==
    /\ ReturnedSinceShutdown("initialize") /\ result.kind = "Ok"
    /\ Cardinality(DOMAIN since[1]) = 1
    /\ plugins = since[1]
    /\ \A n \in DOMAIN plugins : status[plugins[n]] = "Active"

====
